---------------------------- MODULE Spec2Model ----------------------------
(***************************************************************************)
(* Contessasoft WhatsApp bot (src/main.py): the per-identifier session     *)
(* state machine (message_handler, get_action, the step handlers) and the  *)
(* human-agent handoff (human_agent, agent_response) over the Redis store. *)
(*                                                                         *)
(* One inbound webhook message is one atomic step: the reference system    *)
(* handles one webhook call at a time to completion.  The store is the     *)
(* only state kept between calls.  Strings are TLA+ strings; the Chars     *)
(* table spells each one out so that the substring, prefix, trimming and   *)
(* case operations of the code are computed character by character.        *)
(***************************************************************************)
EXTENDS Integers, Sequences, FiniteSets, TLC

(***************************************************************************)
(* Bounds of the model.                                                    *)
(***************************************************************************)
\* Number of handoff conversations that may be created in one behaviour of
\* HandoffSpec, and in one behaviour of Spec.
MaxConvs == 2
MaxDialogueConvs == 1

\* The time a handoff request may stay undecided before the customer is to
\* be offered the fallback, in steps of the clock of WaitSpec.
WaitLimit == 2

(***************************************************************************)
(* Strings.                                                                *)
(***************************************************************************)
\* A key that is not in a dict, a JSON null, Python None.
Absent == "<absent>"

Chars(s) ==
  CASE s = "" -> << >>
    [] s = "Learn about Contessasoft" -> <<"L","e","a","r","n"," ","a","b","o","u","t"," ","C","o","n","t","e","s","s","a","s","o","f","t">>
    [] s = "Our Services" -> <<"O","u","r"," ","S","e","r","v","i","c","e","s">>
    [] s = "Request a Quote" -> <<"R","e","q","u","e","s","t"," ","a"," ","Q","u","o","t","e">>
    [] s = "Talk to Support" -> <<"T","a","l","k"," ","t","o"," ","S","u","p","p","o","r","t">>
    [] s = "Contact Us" -> <<"C","o","n","t","a","c","t"," ","U","s">>
    [] s = "View our portfolio" -> <<"V","i","e","w"," ","o","u","r"," ","p","o","r","t","f","o","l","i","o">>
    [] s = "Download company profile" -> <<"D","o","w","n","l","o","a","d"," ","c","o","m","p","a","n","y"," ","p","r","o","f","i","l","e">>
    [] s = "Back to main menu" -> <<"B","a","c","k"," ","t","o"," ","m","a","i","n"," ","m","e","n","u">>
    [] s = "Domain Registration" -> <<"D","o","m","a","i","n"," ","R","e","g","i","s","t","r","a","t","i","o","n">>
    [] s = "Website Development" -> <<"W","e","b","s","i","t","e"," ","D","e","v","e","l","o","p","m","e","n","t">>
    [] s = "Mobile App Development" -> <<"M","o","b","i","l","e"," ","A","p","p"," ","D","e","v","e","l","o","p","m","e","n","t">>
    [] s = "WhatsApp Chatbots" -> <<"W","h","a","t","s","A","p","p"," ","C","h","a","t","b","o","t","s">>
    [] s = "Payment Integrations" -> <<"P","a","y","m","e","n","t"," ","I","n","t","e","g","r","a","t","i","o","n","s">>
    [] s = "AI and Automation" -> <<"A","I"," ","a","n","d"," ","A","u","t","o","m","a","t","i","o","n">>
    [] s = "Custom Dashboards" -> <<"C","u","s","t","o","m"," ","D","a","s","h","b","o","a","r","d","s">>
    [] s = "Other" -> <<"O","t","h","e","r">>
    [] s = "Request a quote" -> <<"R","e","q","u","e","s","t"," ","a"," ","q","u","o","t","e">>
    [] s = "View sample chatbot" -> <<"V","i","e","w"," ","s","a","m","p","l","e"," ","c","h","a","t","b","o","t">>
    [] s = "Back to services" -> <<"B","a","c","k"," ","t","o"," ","s","e","r","v","i","c","e","s">>
    [] s = "Yes, call me" -> <<"Y","e","s",","," ","c","a","l","l"," ","m","e">>
    [] s = "No, just send the quote" -> <<"N","o",","," ","j","u","s","t"," ","s","e","n","d"," ","t","h","e"," ","q","u","o","t","e">>
    [] s = "Technical support" -> <<"T","e","c","h","n","i","c","a","l"," ","s","u","p","p","o","r","t">>
    [] s = "Payment or billing help" -> <<"P","a","y","m","e","n","t"," ","o","r"," ","b","i","l","l","i","n","g"," ","h","e","l","p">>
    [] s = "General enquiry" -> <<"G","e","n","e","r","a","l"," ","e","n","q","u","i","r","y">>
    [] s = "Request a call back" -> <<"R","e","q","u","e","s","t"," ","a"," ","c","a","l","l"," ","b","a","c","k">>
    [] s = "Speak to an agent" -> <<"S","p","e","a","k"," ","t","o"," ","a","n"," ","a","g","e","n","t">>
    [] s = "Request Quote" -> <<"R","e","q","u","e","s","t"," ","Q","u","o","t","e">>
    [] s = "Back to Services" -> <<"B","a","c","k"," ","t","o"," ","S","e","r","v","i","c","e","s">>
    [] s = "Yes" -> <<"Y","e","s">>
    [] s = "No" -> <<"N","o">>
    [] s = "accept_chat" -> <<"a","c","c","e","p","t","_","c","h","a","t">>
    [] s = "reject_chat" -> <<"r","e","j","e","c","t","_","c","h","a","t">>
    [] s = "accept" -> <<"a","c","c","e","p","t">>
    [] s = "reject" -> <<"r","e","j","e","c","t">>
    [] s = "exit" -> <<"e","x","i","t">>
    [] s = "Exit" -> <<"E","x","i","t">>
    [] s = "hi" -> <<"h","i">>
    [] s = "hello" -> <<"h","e","l","l","o">>
    [] s = "hie" -> <<"h","i","e">>
    [] s = "hey" -> <<"h","e","y">>
    [] s = "start" -> <<"s","t","a","r","t">>
    [] s = "Hi" -> <<"H","i">>
    [] s = "restart" -> <<"r","e","s","t","a","r","t">>
    [] s = "menu" -> <<"m","e","n","u">>
    [] s = "yes" -> <<"y","e","s">>
    [] s = "y" -> <<"y">>
    [] s = "restart_yes" -> <<"r","e","s","t","a","r","t","_","y","e","s">>
    [] s = "ok" -> <<"o","k">>
    [] s = "sure" -> <<"s","u","r","e">>
    [] s = "yeah" -> <<"y","e","a","h">>
    [] s = "yep" -> <<"y","e","p">>
    [] s = "no" -> <<"n","o">>
    [] s = "n" -> <<"n">>
    [] s = "restart_no" -> <<"r","e","s","t","a","r","t","_","n","o">>
    [] s = "nope" -> <<"n","o","p","e">>
    [] s = "nah" -> <<"n","a","h">>
    [] s = "quote" -> <<"q","u","o","t","e">>
    [] s = "request quote" -> <<"r","e","q","u","e","s","t"," ","q","u","o","t","e">>
    [] s = "back" -> <<"b","a","c","k">>
    [] s = "services" -> <<"s","e","r","v","i","c","e","s">>
    [] s = "alice" -> <<"a","l","i","c","e">>
    [] s = "9am" -> <<"9","a","m">>
    [] s = "dom" -> <<"d","o","m">>
    [] s = "web" -> <<"w","e","b">>
    [] s = "app" -> <<"a","p","p">>
    [] s = "development" -> <<"d","e","v","e","l","o","p","m","e","n","t">>
    [] s = "mobile banking" -> <<"m","o","b","i","l","e"," ","b","a","n","k","i","n","g">>
    [] s = "I accept cards" -> <<"I"," ","a","c","c","e","p","t"," ","c","a","r","d","s">>
    [] s = "please reject it" -> <<"p","l","e","a","s","e"," ","r","e","j","e","c","t"," ","i","t">>
    [] s = "hello there" -> <<"h","e","l","l","o"," ","t","h","e","r","e">>
    [] s = "+263785019494" -> <<"+","2","6","3","7","8","5","0","1","9","4","9","4">>
    [] s = "263785019494" -> <<"2","6","3","7","8","5","0","1","9","4","9","4">>
    [] s = "0785019494" -> <<"0","7","8","5","0","1","9","4","9","4">>
    [] s = "263771000001" -> <<"2","6","3","7","7","1","0","0","0","0","0","1">>
    [] s = "+263771000001" -> <<"+","2","6","3","7","7","1","0","0","0","0","0","1">>
    [] s = "263771000002" -> <<"2","6","3","7","7","1","0","0","0","0","0","2">>
    [] s = "+263771000002" -> <<"+","2","6","3","7","7","1","0","0","0","0","0","2">>

\* Every string the model spells out.
Spelled ==
  { "", "Learn about Contessasoft", "Our Services", "Request a Quote",
    "Talk to Support", "Contact Us", "View our portfolio",
    "Download company profile", "Back to main menu", "Domain Registration",
    "Website Development", "Mobile App Development", "WhatsApp Chatbots",
    "Payment Integrations", "AI and Automation", "Custom Dashboards", "Other",
    "Request a quote", "View sample chatbot", "Back to services",
    "Yes, call me", "No, just send the quote", "Technical support",
    "Payment or billing help", "General enquiry", "Request a call back",
    "Speak to an agent", "Request Quote", "Back to Services", "Yes", "No",
    "accept_chat", "reject_chat", "accept", "reject", "exit", "Exit", "hi",
    "hello", "hie", "hey", "start", "Hi", "restart", "menu", "yes", "y",
    "restart_yes", "ok", "sure", "yeah", "yep", "no", "n", "restart_no",
    "nope", "nah", "quote", "request quote", "back", "services", "alice",
    "9am", "dom", "web", "app", "development", "mobile banking",
    "I accept cards", "please reject it", "hello there", "+263785019494",
    "263785019494", "0785019494", "263771000001", "+263771000001",
    "263771000002", "+263771000002" }

\* The identifier strings the model spells out.
PhoneStrings ==
  { "+263785019494", "263785019494", "0785019494", "263771000001",
    "+263771000001", "263771000002", "+263771000002" }

\* The identifier spelled by a tuple of characters.
Str(cs) == CHOOSE s \in PhoneStrings : Chars(s) = cs

\* str.lower() on one character.
LowerChar(c) ==
  CASE c = "A" -> "a" [] c = "B" -> "b" [] c = "C" -> "c" [] c = "D" -> "d"
    [] c = "E" -> "e" [] c = "F" -> "f" [] c = "G" -> "g" [] c = "H" -> "h"
    [] c = "I" -> "i" [] c = "J" -> "j" [] c = "K" -> "k" [] c = "L" -> "l"
    [] c = "M" -> "m" [] c = "N" -> "n" [] c = "O" -> "o" [] c = "P" -> "p"
    [] c = "Q" -> "q" [] c = "R" -> "r" [] c = "S" -> "s" [] c = "T" -> "t"
    [] c = "U" -> "u" [] c = "V" -> "v" [] c = "W" -> "w" [] c = "X" -> "x"
    [] c = "Y" -> "y" [] c = "Z" -> "z" [] OTHER -> c

\* str.lower()
Lower(cs) == [i \in 1..Len(cs) |-> LowerChar(cs[i])]

IsSpace(c) == c = " "

RECURSIVE LStrip(_)
LStrip(cs) ==
  IF cs # << >> /\ IsSpace(Head(cs)) THEN LStrip(Tail(cs)) ELSE cs

RECURSIVE RStrip(_)
RStrip(cs) ==
  IF cs # << >> /\ IsSpace(cs[Len(cs)])
    THEN RStrip(SubSeq(cs, 1, Len(cs) - 1))
    ELSE cs

\* str.strip()
Strip(cs) == RStrip(LStrip(cs))

\* `sub in s` on strings
Contains(sub, s) ==
  \E i \in 0..(Len(s) - Len(sub)) : SubSeq(s, i + 1, i + Len(sub)) = sub

\* s.startswith(pre)
StartsWith(s, pre) == Len(pre) <= Len(s) /\ SubSeq(s, 1, Len(pre)) = pre

\* str.split(): the whitespace-delimited tokens, in order
RECURSIVE SplitFrom(_, _, _)
SplitFrom(cs, cur, acc) ==
  IF cs = << >>
    THEN IF cur = << >> THEN acc ELSE Append(acc, cur)
    ELSE IF IsSpace(Head(cs))
      THEN SplitFrom(Tail(cs), << >>, IF cur = << >> THEN acc ELSE Append(acc, cur))
      ELSE SplitFrom(Tail(cs), Append(cur, Head(cs)), acc)

Split(cs) == SplitFrom(cs, << >>, << >>)

\* the first n elements of a list: xs[:n]
Take(xs, n) == SubSeq(xs, 1, IF Len(xs) < n THEN Len(xs) ELSE n)

\* prompt.strip().lower() and prompt.lower() of every spelled string, tabulated.
CleanOf == [s \in Spelled |-> Lower(Strip(Chars(s)))]
LowerOf == [s \in Spelled |-> Lower(Chars(s))]

\* prompt.strip().lower()
Clean(prompt) == CleanOf[prompt]

\* The emoji of the two service buttons, one character each.
SpeechBalloon == "U+1F4AC"
BackArrow == "U+1F519"

(***************************************************************************)
(* Menu catalog: the option sets in declaration order.                     *)
(***************************************************************************)
MainMenuOptions ==
  << "Learn about Contessasoft", "Our Services", "Request a Quote",
     "Talk to Support", "Contact Us" >>

AboutOptions ==
  << "View our portfolio", "Download company profile", "Back to main menu" >>

ServiceOptions ==
  << "Domain Registration", "Website Development", "Mobile App Development",
     "WhatsApp Chatbots", "Payment Integrations", "AI and Automation",
     "Custom Dashboards", "Other" >>

\* The member names of ServiceOptions, by position.
ServiceNames ==
  << "DOMAIN", "WEBSITE", "MOBILE", "CHATBOT", "PAYMENTS", "AI", "DASHBOARDS",
     "OTHER" >>

ChatbotOptions ==
  << "Request a quote", "View sample chatbot", "Back to services" >>

QuoteOptions ==
  << "Yes, call me", "No, just send the quote", "Back to main menu" >>

SupportOptions ==
  << "Technical support", "Payment or billing help", "General enquiry",
     "Back to main menu" >>

ContactOptions ==
  << "Request a call back", "Speak to an agent", "Back to main menu" >>

\* The two buttons of the restart prompt and of the agent's chat request.
RestartButtons == << "Yes", "No" >>
\* A chat request that offers more buttons than a button prompt holds.
AgentButtonsGrown == << "Accept Chat", "Reject Chat", "Later", "Busy" >>
AgentButtons == << "Accept Chat", "Reject Chat" >>
ServiceButtons == << "Request Quote", "Back to Services" >>

(***************************************************************************)
(* Identifiers.                                                            *)
(***************************************************************************)
AGENT_NUMBERS == << "+263785019494" >>

AgentSet == { AGENT_NUMBERS[i] : i \in 1..Len(AGENT_NUMBERS) }

\* The recipient of owner notifications (the OWNER_PHONE setting).
owner_phone == "owner"

IsDigit(c) == c \in { "0", "1", "2", "3", "4", "5", "6", "7", "8", "9" }

\* the characters of phone that are digits or "+"
RECURSIVE KeepDigitsPlus(_)
KeepDigitsPlus(cs) ==
  IF cs = << >> THEN << >>
  ELSE IF IsDigit(Head(cs)) \/ Head(cs) = "+"
    THEN << Head(cs) >> \o KeepDigitsPlus(Tail(cs))
    ELSE KeepDigitsPlus(Tail(cs))

normalize_phone_number(phone) ==
  LET cleaned == KeepDigitsPlus(Chars(phone))
  IN  IF StartsWith(cleaned, << "+", "2", "6", "3" >>) THEN Str(cleaned)
      ELSE IF StartsWith(cleaned, << "2", "6", "3" >>) THEN Str(<< "+" >> \o cleaned)
      ELSE IF StartsWith(cleaned, << "0" >>)
        THEN Str(<< "+", "2", "6", "3" >> \o Tail(cleaned))
      ELSE Str(cleaned)

\* normalize_phone_number of every identifier, tabulated.
NormalizedOf == [p \in PhoneStrings |-> normalize_phone_number(p)]

(***************************************************************************)
(* Session documents and the store.                                        *)
(***************************************************************************)
\* User.to_dict() of a User that was never built: the "user" key is absent.
NoUser ==
  [ name |-> Absent, phone |-> Absent, email |-> Absent,
    service_type |-> Absent, project_description |-> Absent,
    callback_requested |-> FALSE, support_type |-> Absent ]

\* User(name, phone).to_dict()
NewUser(name, phone) == [NoUser EXCEPT !.name = name, !.phone = phone]

\* A dict with none of the session keys.  A flag that is absent reads as
\* FALSE, a conversation_id that is absent as 0.
EmptyDict ==
  [ step |-> Absent, sender |-> Absent, phone_number |-> Absent,
    user |-> NoUser, field |-> Absent, selected_service |-> Absent,
    service_description |-> Absent, awaiting_button_response |-> FALSE,
    name |-> Absent, assigned_agent |-> Absent, agent_handover |-> FALSE,
    conversation_id |-> 0, awaiting_agent_response |-> FALSE,
    active_chat |-> FALSE ]

\* {'step': step}
StepDict(step) == [EmptyDict EXCEPT !.step = step]

\* current.update(updates): every key of updates overwrites, no key is removed
DictUpdate(current, updates) ==
  [ step |-> IF updates.step # Absent THEN updates.step ELSE current.step,
    sender |-> IF updates.sender # Absent THEN updates.sender ELSE current.sender,
    phone_number |->
      IF updates.phone_number # Absent THEN updates.phone_number
      ELSE current.phone_number,
    user |-> IF updates.user # NoUser THEN updates.user ELSE current.user,
    field |-> IF updates.field # Absent THEN updates.field ELSE current.field,
    selected_service |->
      IF updates.selected_service # Absent THEN updates.selected_service
      ELSE current.selected_service,
    service_description |->
      IF updates.service_description # Absent THEN updates.service_description
      ELSE current.service_description,
    awaiting_button_response |->
      updates.awaiting_button_response \/ current.awaiting_button_response,
    name |-> IF updates.name # Absent THEN updates.name ELSE current.name,
    assigned_agent |->
      IF updates.assigned_agent # Absent THEN updates.assigned_agent
      ELSE current.assigned_agent,
    agent_handover |-> updates.agent_handover \/ current.agent_handover,
    conversation_id |->
      IF updates.conversation_id # 0 THEN updates.conversation_id
      ELSE current.conversation_id,
    awaiting_agent_response |->
      updates.awaiting_agent_response \/ current.awaiting_agent_response,
    active_chat |-> updates.active_chat \/ current.active_chat ]

\* No record under agent_conversation:<id>.
NoConv == [customer |-> Absent, agent |-> Absent, active |-> FALSE]

\* The conversation ids a behaviour may draw.
ConvIds == 1..(MaxConvs + MaxDialogueConvs)

\* redis_client.get("user_state:" + phone_number), EmptyDict when there is none
StoredState(st, phone_number) == st.sessions[phone_number]

\* A read that returns what is stored, also when nothing is.
get_user_state_stored(st, phone_number) == StoredState(st, phone_number)

get_user_state(st, phone_number) ==
  IF StoredState(st, phone_number) # EmptyDict
    THEN StoredState(st, phone_number)
    ELSE [EmptyDict EXCEPT !.step = "welcome", !.sender = phone_number]

\* The document update_user_state writes.
UpdatedState(current, phone_number, updates) ==
  LET merged == DictUpdate(current, updates)
  IN  [merged EXCEPT
         !.phone_number = phone_number,
         !.sender = IF merged.sender = Absent THEN phone_number ELSE merged.sender]

update_user_state(st, phone_number, updates) ==
  [st EXCEPT !.sessions[phone_number] =
     UpdatedState(get_user_state(st, phone_number), phone_number, updates)]

\* A store that finds no handoff record.
ConvGetNone(st, conversation_id) == NoConv

\* redis_client.get("agent_conversation:" + conversation_id)
ConvGet(st, conversation_id) ==
  IF conversation_id \in ConvIds THEN st.convs[conversation_id] ELSE NoConv

\* redis_client.setex("agent_conversation:" + conversation_id, ...)
ConvSet(st, conversation_id, conv_data) ==
  IF conversation_id \in ConvIds
    THEN [st EXCEPT !.convs[conversation_id] = conv_data]
    ELSE st

\* redis_client.delete("agent_conversation:" + conversation_id)
ConvDelete(st, conversation_id) ==
  IF conversation_id \in ConvIds
    THEN [st EXCEPT !.convs[conversation_id] = NoConv]
    ELSE st

(***************************************************************************)
(* Outbound messages.  env.net is the outcome of the HTTP posts made while *)
(* one inbound message is processed: "ok", "http_error" (an error status)  *)
(* or "conn_error" (no response).  st.out lists the posts attempted.       *)
(***************************************************************************)
Post(st, env, to, kind, text, opts, arg) ==
  [st EXCEPT !.out = Append(@,
     [ to |-> to, kind |-> kind, text |-> text, opts |-> opts, arg |-> arg,
       ok |-> env.net = "ok" ])]

\* send_message swallows every request failure.
send_message(st, env, text, recipient, arg) ==
  Post(st, env, recipient, "text", text, << >>, arg)

\* The recipient send_button_message posts to.
InternationalFormat(recipient) ==
  IF StartsWith(Chars(recipient), << "0" >>)
    THEN Str(<< "+", "2", "6", "3" >> \o Tail(Chars(recipient)))
  ELSE IF ~StartsWith(Chars(recipient), << "+" >>)
    THEN Str(<< "+" >> \o Chars(recipient))
  ELSE recipient

InternationalOf == [p \in PhoneStrings |-> InternationalFormat(p)]

ButtonRecipient(recipient) == InternationalOf[recipient]

\* send_button_message returns whether the post succeeded.
ButtonSent(env) == env.net = "ok"

send_button_message(st, env, text, buttons, recipient) ==
  LET to == ButtonRecipient(recipient)
      posted == Post(st, env, to, "button", text, Take(buttons, 3), "")
  IN  IF ButtonSent(env) THEN posted
      ELSE Post(posted, env, to, "text", text, Take(buttons, 3), "fallback")

\* send_list_message returns whether the post succeeded.
ListSent(env) == env.net = "ok"

send_list_message(st, env, text, options, recipient) ==
  LET posted == Post(st, env, recipient, "list", text, Take(options, 10), "")
  IN  IF env.net = "http_error"
        THEN Post(posted, env, recipient, "text", text, Take(options, 10), "fallback")
        ELSE posted

\* What a handler hands back: the store it left, and the dict it returned
\* (none: it returned None).
Ret(st, ret) == [st |-> st, ret |-> ret, none |-> FALSE]
RetNone(st) == [st |-> st, ret |-> EmptyDict, none |-> TRUE]

(***************************************************************************)
(* Matching a reply against an option set.                                 *)
(***************************************************************************)
\* The first option that contains the reply, the option compared as it is
\* spelled (its lower() left out).
RECURSIVE FirstContainingAsSpelled(_, _, _)
FirstContainingAsSpelled(options, prompt, i) ==
  IF i > Len(options) THEN 0
  ELSE IF Contains(LowerOf[prompt], Chars(options[i])) THEN i
  ELSE FirstContainingAsSpelled(options, prompt, i + 1)

\* for option in Options: if prompt.lower() in option.value.lower(): break
\* The position of the first option whose label contains the reply, or 0.
RECURSIVE FirstContaining(_, _, _)
FirstContaining(options, prompt, i) ==
  IF i > Len(options) THEN 0
  ELSE IF Contains(LowerOf[prompt], LowerOf[options[i]]) THEN i
  ELSE FirstContaining(options, prompt, i + 1)

\* The option sets matched by containment, and the selection tabulated.
ContainmentSets ==
  { MainMenuOptions, AboutOptions, ChatbotOptions, QuoteOptions, SupportOptions,
    ContactOptions }

FirstOf ==
  [options \in ContainmentSets |->
     [prompt \in Spelled |-> FirstContaining(options, prompt, 1)]]

SelectFirst(options, prompt) == FirstOf[options][prompt]

\* A comparison under which the later of two equal scores wins.
ScoreAtLeast(a, b) == a[1] * b[2] >= b[1] * a[2]

\* A match score as a fraction <<numerator, denominator>>.
ScoreGreater(a, b) == a[1] * b[2] > b[1] * a[2]

\* match_score of one option of handle_services_menu
MatchScore(clean_input, option_text) ==
  IF Contains(clean_input, option_text)
    THEN << Len(clean_input), Len(option_text) >>
  ELSE IF \E w \in 1..Len(Split(clean_input)) :
            Contains(Split(clean_input)[w], option_text)
    THEN << 1, 2 >>
  ELSE << 0, 1 >>

\* The loop of handle_services_menu from option i on, with the best score and
\* the option selected so far; an exact match ends the loop.
RECURSIVE ScoreFrom(_, _, _, _, _)
ScoreFrom(options, clean_input, i, best_match_score, selected_option) ==
  IF i > Len(options) THEN selected_option
  ELSE LET option_text == LowerOf[options[i]]
           match_score == MatchScore(clean_input, option_text)
       IN  IF clean_input = option_text THEN i
           ELSE IF ScoreGreater(match_score, best_match_score)
             THEN ScoreFrom(options, clean_input, i + 1, match_score, i)
             ELSE ScoreFrom(options, clean_input, i + 1, best_match_score,
                            selected_option)

\* The position of the option the scoring loop selects, or 0.
ScoredOf ==
  [prompt \in Spelled |->
     ScoreFrom(ServiceOptions, Clean(prompt), 1, << 0, 1 >>, 0)]

SelectScored(prompt) == ScoredOf[prompt]

(***************************************************************************)
(* Step handlers.  Each takes the reply, the session the caller loaded     *)
(* (user_data), the store and the choices made during this message (env).  *)
(***************************************************************************)
\* A welcome that stores the new step only when the menu was delivered.
handle_welcome_if_sent(prompt, user_data, st, env) ==
  LET sent == send_list_message(st, env, "welcome", MainMenuOptions,
                                user_data.sender)
  IN  IF env.net = "ok"
        THEN Ret(update_user_state(sent, user_data.sender, StepDict("main_menu")),
                 StepDict("main_menu"))
        ELSE Ret(sent, StepDict("welcome"))

handle_welcome(prompt, user_data, st, env) ==
  LET sent == send_list_message(st, env, "welcome", MainMenuOptions,
                                user_data.sender)
  IN  Ret(update_user_state(sent, user_data.sender, StepDict("main_menu")),
          StepDict("main_menu"))

RestartInitial == { "", "restart", "start", "menu" }
RestartYes == { "yes", "y", "restart_yes", "ok", "sure", "yeah", "yep" }
RestartNo == { "no", "n", "restart_no", "nope", "nah" }

\* text in words, for the cleaned reply
CleanIn(prompt, words) == \E w \in words : Clean(prompt) = Chars(w)

RestartInitialOf == [p \in Spelled |-> CleanIn(p, RestartInitial)]
RestartYesOf == [p \in Spelled |-> CleanIn(p, RestartYes)]
RestartNoOf == [p \in Spelled |-> CleanIn(p, RestartNo)]

\* A confirmation that takes every reply other than a yes for a yes/no
\* question still open, a no included.
handle_restart_confirmation_yes_only(prompt, user_data, st, env) ==
  IF RestartYesOf[prompt]
    THEN handle_welcome("", user_data, st, env)
    ELSE Ret(send_button_message(st, env, "restart_confirm", RestartButtons,
                                 user_data.sender),
             StepDict("restart_confirmation"))

handle_restart_confirmation(prompt, user_data, st, env) ==
  IF RestartInitialOf[prompt]
    THEN LET sent == send_button_message(st, env, "restart_prompt",
                                         RestartButtons, user_data.sender)
         IN  Ret(update_user_state(sent, user_data.sender,
                                   StepDict("restart_confirmation")),
                 StepDict("restart_confirmation"))
  ELSE IF RestartYesOf[prompt]
    THEN handle_welcome("", user_data, st, env)
  ELSE IF RestartNoOf[prompt]
    THEN LET sent == send_message(st, env, "goodbye", user_data.sender, "")
         IN  Ret(update_user_state(sent, user_data.sender, StepDict("welcome")),
                 StepDict("welcome"))
  ELSE Ret(send_button_message(st, env, "restart_confirm", RestartButtons,
                               user_data.sender),
           StepDict("restart_confirmation"))

\* No option matches, and the dialogue is reset to the welcome step.
NoMatchResets(st, env, user_data, step) ==
  Ret(send_message(st, env, "invalid_selection", user_data.sender, ""),
      StepDict("welcome"))

\* No option matches: the user is told, and the step stays.
NoMatch(st, env, user_data, step) ==
  Ret(send_message(st, env, "invalid_selection", user_data.sender, ""),
      StepDict(step))

\* The next menu: its list prompt is sent and the step is stored.
EnterMenu(st, env, user_data, text, options, step) ==
  LET sent == send_list_message(st, env, text, options, user_data.sender)
  IN  Ret(update_user_state(sent, user_data.sender, StepDict(step)),
          StepDict(step))

\* The quote form is entered from the main menu.
EnterQuote(st, env, user_data) ==
  LET sent == send_message(st, env, "ask_name", user_data.sender, "")
  IN  Ret(update_user_state(sent, user_data.sender,
            [EmptyDict EXCEPT !.step = "get_quote_info",
                              !.user = NewUser("", user_data.sender),
                              !.field = "name"]),
          StepDict("get_quote_info"))

handle_main_menu(prompt, user_data, st, env) ==
  LET selected_option == SelectFirst(MainMenuOptions, prompt)
  IN  CASE selected_option = 0 ->
             NoMatch(st, env, user_data, "main_menu")
        [] selected_option = 1 ->
             EnterMenu(st, env, user_data, "about", AboutOptions, "about_menu")
        [] selected_option = 2 ->
             EnterMenu(st, env, user_data, "services", ServiceOptions,
                       "services_menu")
        [] selected_option = 3 -> EnterQuote(st, env, user_data)
        [] selected_option = 4 ->
             EnterMenu(st, env, user_data, "support", SupportOptions,
                       "support_menu")
        [] selected_option = 5 ->
             EnterMenu(st, env, user_data, "contact", ContactOptions,
                       "contact_menu")

handle_about_menu(prompt, user_data, st, env) ==
  LET selected_option == SelectFirst(AboutOptions, prompt)
  IN  CASE selected_option = 0 ->
             NoMatch(st, env, user_data, "about_menu")
        [] selected_option = 1 ->
             handle_welcome("", user_data,
               send_message(st, env, "portfolio", user_data.sender, ""), env)
        [] selected_option = 2 ->
             LET sent == send_message(st, env, "profile", user_data.sender, "")
             IN  Ret(update_user_state(sent, user_data.sender,
                                       StepDict("request_more_info")),
                     StepDict("request_more_info"))
        [] selected_option = 3 -> handle_welcome("", user_data, st, env)

handle_services_menu(prompt, user_data, st, env) ==
  LET selected_option == SelectScored(prompt)
      chosen == [EmptyDict EXCEPT
                   !.step = "service_detail",
                   !.selected_service = ServiceNames[selected_option],
                   !.service_description = ServiceOptions[selected_option]]
      stored == update_user_state(st, user_data.sender, chosen)
      posted == Post(stored, env, user_data.sender, "button", "service_info",
                     ServiceButtons, "")
  IN  IF selected_option = 0
        THEN LET sent == send_list_message(st, env, "invalid_service",
                                           ServiceOptions, user_data.sender)
             IN  Ret(IF ListSent(env) THEN sent
                     ELSE Post(sent, env, user_data.sender, "text",
                               "invalid_service", ServiceOptions, "reply_with"),
                     StepDict("services_menu"))
        ELSE Ret(IF env.net = "ok"
                   THEN update_user_state(posted, user_data.sender,
                          [chosen EXCEPT !.awaiting_button_response = TRUE])
                   ELSE Post(posted, env, user_data.sender, "text",
                             "service_info", << >>, "fallback"),
                 [EmptyDict EXCEPT
                    !.step = "service_detail",
                    !.selected_service = ServiceNames[selected_option]])

\* The two tests of handle_service_detail.
WantsQuote(prompt) ==
  \/ Contains(Chars("quote"), Clean(prompt))
  \/ Contains(Chars("request quote"), Clean(prompt))
  \/ Contains(<< SpeechBalloon >>, Chars(prompt))

WantsBack(prompt) ==
  \/ Contains(Chars("back"), Clean(prompt))
  \/ Contains(Chars("services"), Clean(prompt))
  \/ Contains(<< BackArrow >>, Chars(prompt))

WantsQuoteOf == [p \in Spelled |-> WantsQuote(p)]
WantsBackOf == [p \in Spelled |-> WantsBack(p)]

handle_service_detail(prompt, user_data, st, env) ==
      IF WantsQuoteOf[prompt]
        THEN LET form == [EmptyDict EXCEPT
                            !.step = "get_quote_info",
                            !.user = NewUser("", user_data.sender),
                            !.field = "name",
                            !.selected_service = user_data.selected_service,
                            !.service_description = user_data.service_description]
                 stored == update_user_state(st, user_data.sender, form)
             IN  Ret(send_message(stored, env, "ask_name", user_data.sender, ""),
                     [EmptyDict EXCEPT
                        !.step = "get_quote_info",
                        !.user = NewUser("", user_data.sender),
                        !.field = "name"])
      ELSE IF WantsBackOf[prompt]
        THEN EnterMenu(st, env, user_data, "services", ServiceOptions,
                       "services_menu")
      ELSE Ret(send_button_message(st, env, "service_info", ServiceButtons,
                                   user_data.sender),
               StepDict("service_detail"))

\* ServiceOptions(prompt): the member with that value, or ValueError.
IsServiceValue(prompt) == \E i \in 1..Len(ServiceOptions) : ServiceOptions[i] = prompt

\* The except branch of a handler: an apology, and {'step': 'welcome'}.
HandlerError(st, env, user_data) ==
  Ret(send_message(st, env, "error_try_again", user_data.sender, ""),
      StepDict("welcome"))

\* A form that asks for the description after every field.
QuoteFieldSkipping(st, env, user_data, user, next_field, ask) ==
  LET form == [EmptyDict EXCEPT !.step = "get_quote_info", !.user = user,
                                !.field = "description"]
      stored == update_user_state(st, user_data.sender, form)
  IN  Ret(send_message(stored, env, ask, user_data.sender, ""), form)

\* One field of the quote form is stored and the next one is asked for.
QuoteField(st, env, user_data, user, next_field, ask) ==
  LET form == [EmptyDict EXCEPT !.step = "get_quote_info", !.user = user,
                                !.field = next_field]
      stored == update_user_state(st, user_data.sender, form)
  IN  Ret(send_message(stored, env, ask, user_data.sender, ""), form)

handle_get_quote_info(prompt, user_data, st, env) ==
  LET user == user_data.user
      current_field == user_data.field
  IN  IF user = NoUser THEN HandlerError(st, env, user_data)
      ELSE CASE current_field = "name" ->
                  QuoteField(st, env, user_data, [user EXCEPT !.name = prompt],
                             "email", "ask_email")
             [] current_field = "email" ->
                  QuoteField(st, env, user_data, [user EXCEPT !.email = prompt],
                             "service_type", "ask_service_type")
             [] current_field = "service_type" ->
                  QuoteField(st, env, user_data,
                    [user EXCEPT !.service_type =
                       IF IsServiceValue(prompt) THEN prompt ELSE "Other"],
                    "description", "ask_description")
             [] current_field = "description" ->
                  LET done == [user EXCEPT !.project_description = prompt]
                      asked == send_list_message(st, env, "ask_callback",
                                                 QuoteOptions, user_data.sender)
                      told == send_message(asked, env, "admin_quote_request",
                                           owner_phone, prompt)
                      followup == [EmptyDict EXCEPT !.step = "quote_followup",
                                                    !.user = done]
                  IN  Ret(update_user_state(told, user_data.sender, followup),
                          followup)
             [] OTHER -> RetNone(st)

handle_quote_followup(prompt, user_data, st, env) ==
  LET selected_option == SelectFirst(QuoteOptions, prompt)
      user == user_data.user
  IN  IF selected_option = 0
        THEN Ret(send_message(st, env, "invalid_selection", user_data.sender, ""),
                 [EmptyDict EXCEPT !.step = "quote_followup", !.user = user])
      ELSE IF user = NoUser THEN HandlerError(st, env, user_data)
      ELSE CASE selected_option = 1 ->
                  LET thanked == send_message(st, env, "quote_submitted_call",
                                              user_data.sender, "")
                  IN  IF user.project_description = Absent
                        THEN HandlerError(thanked, env, user_data)
                        ELSE handle_welcome("", user_data,
                               send_message(thanked, env, "admin_callback_quote",
                                            owner_phone, user.name), env)
             [] selected_option = 2 ->
                  handle_welcome("", user_data,
                    send_message(st, env, "quote_submitted", user_data.sender, ""),
                    env)
             [] selected_option = 3 ->
                  handle_main_menu("Request a Quote", user_data, st, env)

\* The quote or callback form of the chatbot sub-menu.
handle_chatbot_menu(prompt, user_data, st, env) ==
  LET selected_option == SelectFirst(ChatbotOptions, prompt)
  IN  CASE selected_option = 0 ->
             NoMatch(st, env, user_data, "chatbot_menu")
        [] selected_option = 1 ->
             LET sent == send_message(st, env, "ask_name", user_data.sender, "")
             IN  Ret(update_user_state(sent, user_data.sender,
                                       StepDict("get_chatbot_quote")),
                     StepDict("get_chatbot_quote"))
        [] selected_option = 2 ->
             LET sent == send_message(st, env, "sample_chatbot",
                                      user_data.sender, "")
             IN  Ret(update_user_state(sent, user_data.sender,
                                       StepDict("get_quote_info")),
                     StepDict("get_quote_info"))
        [] selected_option = 3 ->
             handle_main_menu("Our Services", user_data, st, env)

(***************************************************************************)
(* The handoff to a human agent.                                           *)
(***************************************************************************)
human_agent(prompt, user_data, st, env) ==
  LET selected_agent == env.agent
      conversation_id == st.nextId
      conversation_data ==
        [customer |-> user_data.sender, agent |-> selected_agent,
         active |-> FALSE]
      created == [ConvSet(st, conversation_id, conversation_data)
                    EXCEPT !.nextId = @ + 1]
      customer_saved ==
        update_user_state(created, user_data.sender,
          [EmptyDict EXCEPT !.step = "human_agent",
                            !.assigned_agent = selected_agent,
                            !.agent_handover = TRUE,
                            !.conversation_id = conversation_id])
      agent_state ==
        [EmptyDict EXCEPT !.step = "agent_response",
                          !.conversation_id = conversation_id,
                          !.awaiting_agent_response = TRUE,
                          !.sender = selected_agent]
      agent_saved == update_user_state(customer_saved, selected_agent, agent_state)
      normalized_agent == NormalizedOf[selected_agent]
      both_saved ==
        IF normalized_agent # selected_agent
          THEN update_user_state(agent_saved, normalized_agent, agent_state)
          ELSE agent_saved
      notified == send_message(both_saved, env, "connecting", user_data.sender, "")
      asked == send_button_message(notified, env, "chat_request", AgentButtons,
                                   selected_agent)
      done == IF ButtonSent(env) THEN asked
              ELSE send_message(asked, env, "chat_request_text", selected_agent, "")
  IN  IF Len(AGENT_NUMBERS) = 0
        THEN handle_welcome("", user_data,
               send_message(st, env, "no_agents", user_data.sender, ""), env)
        ELSE Ret(done,
                 [EmptyDict EXCEPT !.step = "agent_response",
                                   !.assigned_agent = selected_agent,
                                   !.conversation_id = conversation_id,
                                   !.awaiting_agent_response = TRUE])

handle_support_menu(prompt, user_data, st, env) ==
  LET selected_option == SelectFirst(SupportOptions, prompt)
      user == [NewUser(IF user_data.name # Absent THEN user_data.name ELSE "User",
                       user_data.sender)
                 EXCEPT !.support_type = SupportOptions[selected_option]]
      ask == CASE selected_option = 1 -> "describe_technical"
               [] selected_option = 2 -> "describe_billing"
               [] OTHER -> "describe_enquiry"
      details == [EmptyDict EXCEPT !.step = "get_support_details", !.user = user]
  IN  IF selected_option = 0
        THEN NoMatch(st, env, user_data, "support_menu")
      ELSE IF selected_option = 4 THEN handle_welcome("", user_data, st, env)
      ELSE Ret(update_user_state(
                 send_message(st, env, ask, user_data.sender, ""),
                 user_data.sender, details),
               details)

handle_get_support_details(prompt, user_data, st, env) ==
  IF user_data.user = NoUser \/ user_data.user.support_type = Absent
    THEN HandlerError(st, env, user_data)
    ELSE LET told == send_message(st, env, "admin_support_request", owner_phone,
                                  prompt)
             logged == send_message(told, env, "support_logged",
                                    user_data.sender, "")
         IN  human_agent("", user_data, logged, env)

handle_contact_menu(prompt, user_data, st, env) ==
  LET selected_option == SelectFirst(ContactOptions, prompt)
  IN  CASE selected_option = 0 ->
             NoMatch(st, env, user_data, "contact_menu")
        [] selected_option = 1 ->
             LET sent == send_message(st, env, "ask_name", user_data.sender, "")
             IN  Ret(update_user_state(sent, user_data.sender,
                                       StepDict("get_callback_details")),
                     StepDict("get_callback_details"))
        [] selected_option = 2 ->
             LET sent == send_message(st, env, "connecting_soon",
                                      user_data.sender, "")
                 told == send_message(sent, env, "admin_agent_requested",
                                      owner_phone, "")
             IN  human_agent("", user_data, told, env)
        [] selected_option = 3 -> handle_welcome("", user_data, st, env)

handle_get_callback_details(prompt, user_data, st, env) ==
  IF user_data.name = Absent
    THEN LET form == [EmptyDict EXCEPT !.step = "get_callback_details",
                                       !.name = prompt, !.field = "time"]
             stored == update_user_state(st, user_data.sender, form)
         IN  Ret(send_message(stored, env, "ask_time", user_data.sender, ""), form)
  ELSE IF user_data.field = "time"
    THEN LET told == send_message(st, env, "admin_callback_request", owner_phone,
                                  prompt)
             thanked == send_message(told, env, "callback_logged",
                                     user_data.sender, "")
         IN  handle_welcome("", user_data, thanked, env)
  ELSE RetNone(st)

\* prompt == "accept_chat" or "accept" in prompt.lower()
AcceptText(prompt) ==
  prompt = "accept_chat" \/ Contains(Chars("accept"), Lower(Chars(prompt)))

\* prompt == "reject_chat" or "reject" in prompt.lower()
RejectText(prompt) ==
  prompt = "reject_chat" \/ Contains(Chars("reject"), Lower(Chars(prompt)))

\* prompt.lower() == "exit"
ExitText(prompt) == Lower(Chars(prompt)) = Chars("exit")

AcceptOf == [p \in Spelled |-> AcceptText(p)]
RejectOf == [p \in Spelled |-> RejectText(p)]
ExitOf == [p \in Spelled |-> ExitText(p)]

IsAccept(prompt) == AcceptOf[prompt]
IsReject(prompt) == RejectOf[prompt]
IsExit(prompt) == ExitOf[prompt]

\* An accept that goes through only while the customer is still waiting.
AcceptChatIfWaiting(st, env, user_data, conversation_id, conv_data, joined_text) ==
  LET customer_number == conv_data.customer
      told == send_message(st, env, joined_text, customer_number, "")
      connected == send_message(told, env, "agent_connected", user_data.sender, "")
      activated == ConvSet(connected, conversation_id,
                           [conv_data EXCEPT !.active = TRUE])
      chat(sender) == [EmptyDict EXCEPT !.step = "agent_response",
                                        !.conversation_id = conversation_id,
                                        !.active_chat = TRUE,
                                        !.sender = sender]
      customer_saved == update_user_state(activated, customer_number,
                                          chat(customer_number))
  IN  IF get_user_state(st, customer_number).step # "agent_response"
        THEN Ret(send_message(ConvDelete(st, conversation_id), env,
                              "conversation_not_found", user_data.sender, ""),
                 StepDict("agent_response"))
        ELSE Ret(update_user_state(customer_saved, user_data.sender,
                                   chat(user_data.sender)),
                 [EmptyDict EXCEPT !.step = "agent_response",
                                   !.conversation_id = conversation_id,
                                   !.active_chat = TRUE])

\* The agent accepts: both parties are told, the record is activated and
\* both sessions are moved to the live chat.
AcceptChat(st, env, user_data, conversation_id, conv_data, joined_text) ==
  LET customer_number == conv_data.customer
      told == send_message(st, env, joined_text, customer_number, "")
      connected == send_message(told, env, "agent_connected", user_data.sender, "")
      activated == ConvSet(connected, conversation_id,
                           [conv_data EXCEPT !.active = TRUE])
      chat(sender) == [EmptyDict EXCEPT !.step = "agent_response",
                                        !.conversation_id = conversation_id,
                                        !.active_chat = TRUE,
                                        !.sender = sender]
      customer_saved == update_user_state(activated, customer_number,
                                          chat(customer_number))
  IN  Ret(update_user_state(customer_saved, user_data.sender,
                            chat(user_data.sender)),
          [EmptyDict EXCEPT !.step = "agent_response",
                            !.conversation_id = conversation_id,
                            !.active_chat = TRUE])

\* The agent rejects: the customer is told, the record is deleted and the
\* customer is sent the welcome menu.
RejectChat(st, env, conversation_id, conv_data) ==
  LET customer_number == conv_data.customer
      told == send_message(st, env, "agent_unavailable", customer_number, "")
  IN  handle_welcome("", [EmptyDict EXCEPT !.sender = customer_number],
                     ConvDelete(told, conversation_id), env)

\* An exit that stores the agent as the sender of the customer's session.
ExitChatSwapped(st, env, user_data, conversation_id, conv_data) ==
  LET by_agent == user_data.sender = conv_data.agent
      told ==
        IF by_agent
          THEN send_message(
                 send_message(st, env, "you_ended", conv_data.agent, ""),
                 env, "agent_ended", conv_data.customer, "")
          ELSE update_user_state(
                 send_message(
                   send_message(st, env, "you_ended_customer",
                                conv_data.customer, ""),
                   env, "customer_ended", conv_data.agent, ""),
                 conv_data.agent,
                 [EmptyDict EXCEPT !.step = "agent_response",
                                   !.sender = conv_data.agent])
      restart == update_user_state(told, conv_data.customer,
                   [EmptyDict EXCEPT !.step = "restart_confirmation",
                                     !.sender = conv_data.agent])
  IN  handle_restart_confirmation("",
        [EmptyDict EXCEPT !.sender = conv_data.customer],
        ConvDelete(restart, conversation_id), env)

\* "exit" in a live chat: both parties are told, the customer is asked
\* whether to restart, the record is deleted.
ExitChat(st, env, user_data, conversation_id, conv_data) ==
  LET by_agent == user_data.sender = conv_data.agent
      told ==
        IF by_agent
          THEN send_message(
                 send_message(st, env, "you_ended", conv_data.agent, ""),
                 env, "agent_ended", conv_data.customer, "")
          ELSE update_user_state(
                 send_message(
                   send_message(st, env, "you_ended_customer",
                                conv_data.customer, ""),
                   env, "customer_ended", conv_data.agent, ""),
                 conv_data.agent,
                 [EmptyDict EXCEPT !.step = "agent_response",
                                   !.sender = conv_data.agent])
      restart == update_user_state(told, conv_data.customer,
                   [EmptyDict EXCEPT !.step = "restart_confirmation",
                                     !.sender = conv_data.customer])
  IN  handle_restart_confirmation("",
        [EmptyDict EXCEPT !.sender = conv_data.customer],
        ConvDelete(restart, conversation_id), env)

\* A message of a live chat is forwarded to the other party.
Forward(st, env, prompt, user_data, conversation_id, conv_data) ==
  Ret(IF user_data.sender = conv_data.agent
        THEN send_message(st, env, "agent_says", conv_data.customer, prompt)
        ELSE send_message(st, env, "customer_says", conv_data.agent, prompt),
      [EmptyDict EXCEPT !.step = "agent_response",
                        !.conversation_id = conversation_id,
                        !.active_chat = TRUE])

\* A test that lets either party of a record decide it.
IsAnyParty(user_data, conv_data) == TRUE

\* user_data['sender'] == conv_data['agent']: only the assigned agent can
\* accept or reject.
IsAssignedAgent(user_data, conv_data) == user_data.sender = conv_data.agent

agent_response(prompt, user_data, st, env) ==
  LET conversation_id == user_data.conversation_id
      conv_data == ConvGet(st, conversation_id)
      waiting == [EmptyDict EXCEPT !.step = "agent_response",
                                   !.conversation_id = conversation_id]
  IN  IF conversation_id # 0 /\ conv_data # NoConv
        THEN IF ~conv_data.active
               THEN IF IsAssignedAgent(user_data, conv_data)
                      THEN IF IsAccept(prompt)
                             THEN AcceptChat(st, env, user_data, conversation_id,
                                             conv_data, "agent_joined")
                           ELSE IF IsReject(prompt)
                             THEN RejectChat(st, env, conversation_id, conv_data)
                           ELSE Ret(send_message(st, env, "invalid_accept_reject",
                                                 user_data.sender, ""),
                                    waiting)
                      ELSE Ret(send_message(st, env, "please_wait",
                                            conv_data.customer, ""),
                               waiting)
             ELSE IF IsExit(prompt)
               THEN ExitChat(st, env, user_data, conversation_id, conv_data)
             ELSE Forward(st, env, prompt, user_data, conversation_id, conv_data)
      ELSE IF user_data.awaiting_agent_response /\ ~user_data.active_chat
        THEN IF IsAccept(prompt)
               THEN IF conv_data = NoConv
                      THEN Ret(send_message(st, env, "conversation_not_found",
                                            user_data.sender, ""),
                               StepDict("agent_response"))
                      ELSE AcceptChat(st, env, user_data, conversation_id,
                                      conv_data, "agent_joined_exit_hint")
             ELSE IF IsReject(prompt)
               THEN IF conv_data # NoConv
                      THEN RejectChat(st, env, conversation_id, conv_data)
                      ELSE Ret(st, StepDict("agent_response"))
             ELSE Ret(send_message(st, env, "invalid_accept_reject",
                                   user_data.sender, ""),
                      StepDict("agent_response"))
      ELSE handle_welcome("", user_data, st, env)

(***************************************************************************)
(* Dispatch.                                                               *)
(***************************************************************************)
\* The keys of action_mapping.
ActionSteps ==
  { "welcome", "restart_confirmation", "main_menu", "about_menu",
    "services_menu", "service_detail", "chatbot_menu", "get_quote_info",
    "quote_followup", "support_menu", "get_support_details", "contact_menu",
    "get_callback_details", "human_agent", "agent_response" }

\* A dispatch without a default: a step without a handler yields no state.
NoDefaultHandler(prompt, user_data, st, env) == RetNone(st)

\* The default of action_mapping.get: the handler of the initial step.
DefaultHandler(prompt, user_data, st, env) ==
  handle_welcome(prompt, user_data, st, env)

\* action_mapping.get(current_state, handle_welcome)(prompt, user_data, phone_id)
get_action(current_state, prompt, user_data, st, env) ==
  CASE current_state = "welcome" -> handle_welcome(prompt, user_data, st, env)
    [] current_state = "restart_confirmation" ->
         handle_restart_confirmation(prompt, user_data, st, env)
    [] current_state = "main_menu" -> handle_main_menu(prompt, user_data, st, env)
    [] current_state = "about_menu" -> handle_about_menu(prompt, user_data, st, env)
    [] current_state = "services_menu" ->
         handle_services_menu(prompt, user_data, st, env)
    [] current_state = "service_detail" ->
         handle_service_detail(prompt, user_data, st, env)
    [] current_state = "chatbot_menu" ->
         handle_chatbot_menu(prompt, user_data, st, env)
    [] current_state = "get_quote_info" ->
         handle_get_quote_info(prompt, user_data, st, env)
    [] current_state = "quote_followup" ->
         handle_quote_followup(prompt, user_data, st, env)
    [] current_state = "support_menu" ->
         handle_support_menu(prompt, user_data, st, env)
    [] current_state = "get_support_details" ->
         handle_get_support_details(prompt, user_data, st, env)
    [] current_state = "contact_menu" ->
         handle_contact_menu(prompt, user_data, st, env)
    [] current_state = "get_callback_details" ->
         handle_get_callback_details(prompt, user_data, st, env)
    [] current_state = "human_agent" -> agent_response(prompt, user_data, st, env)
    [] current_state = "agent_response" ->
         agent_response(prompt, user_data, st, env)
    [] OTHER -> DefaultHandler(prompt, user_data, st, env)

\* update_user_state(sender, updated_state) at the end of message_handler:
\* updating with None raises, and the webhook answers 500.
Finish(sender, result) ==
  IF result.none
    THEN [st |-> result.st, http |-> 500]
    ELSE [st |-> update_user_state(result.st, sender, result.ret), http |-> 200]

RestartInputs == { "hi", "hello", "hie", "hey", "start" }

\* text in ["hi", "hello", "hie", "hey", "start"]
RestartText(prompt) == CleanIn(prompt, RestartInputs)

RestartOf == [p \in Spelled |-> RestartText(p)]

IsRestart(prompt) == RestartOf[prompt]

\* The sender is an agent number, as delivered or normalized.
IsAgentSender(sender) ==
  NormalizedOf[sender] \in AgentSet \/ sender \in AgentSet

\* The session the agent branch hands to agent_response, and the store after
\* the agent was put in agent mode.
AgentEntry(st, sender) ==
  LET normalized_sender == NormalizedOf[sender]
      own == get_user_state(st, sender)
      normalized_state == get_user_state(st, normalized_sender)
      state == IF own.step # "agent_response"
                  /\ normalized_state.step = "agent_response"
                 THEN normalized_state
                 ELSE own
      marked == update_user_state(st, sender,
                  [EmptyDict EXCEPT !.step = "agent_response", !.sender = sender])
  IN  IF state.step # "agent_response"
        THEN [st |-> marked, state |-> get_user_state(marked, sender)]
        ELSE [st |-> st, state |-> state]

\* The session a customer's message is handled with.
CustomerState(st, sender) == [get_user_state(st, sender) EXCEPT !.sender = sender]

\* The live-chat test left out: no customer is ever taken to be in a chat.
NeverInActiveChat(st, sender) == FALSE

\* The customer is in a live chat.
InActiveChat(st, sender) ==
  CustomerState(st, sender).step = "agent_response"
    /\ CustomerState(st, sender).active_chat

\* With the store unreachable the first read of message_handler raises; the
\* webhook catches it and answers 500.
message_handler(prompt, sender, st, env) ==
  LET user_state == CustomerState(st, sender)
      entry == AgentEntry(st, sender)
  IN  IF env.store = "down" THEN [st |-> st, http |-> 500]
      ELSE IF IsAgentSender(sender)
        THEN Finish(sender, agent_response(prompt, entry.state, entry.st, env))
      ELSE IF InActiveChat(st, sender)
        THEN Finish(sender, agent_response(prompt, user_state, st, env))
      ELSE IF IsRestart(prompt)
        THEN Finish(sender,
               get_action("welcome", "",
                 [EmptyDict EXCEPT !.step = "welcome", !.sender = sender],
                 st, env))
      ELSE Finish(sender, get_action(user_state.step, prompt, user_state, st, env))

(***************************************************************************)
(* The state machine.                                                      *)
(***************************************************************************)
VARIABLES
  sessions,  \* user_state:<identifier> -> the stored session, or EmptyDict
  convs,     \* agent_conversation:<id> -> the conversation record, or NoConv
  nextId,    \* the next conversation id human_agent draws
  out,       \* the posts attempted while the last message was processed
  http,      \* the status the webhook answered the last message with
  probe,     \* MatchSpec: the last reply matched against an option set
  waited,    \* WaitSpec: the time since the last inbound message
  race       \* RaceSpec: two calls of update_user_state in flight

vars == << sessions, convs, nextId, out, http, probe, waited, race >>

\* The agent's number as stored in the pool and as the channel delivers it.
AgentSenders == { "+263785019494", "263785019494" }

AllCustomers == { "263771000001", "263771000002" }

\* The identifiers sessions are kept for: the customers, the first one also
\* as written with the international prefix sign, and the agent's forms.
Keys == AllCustomers \cup { "+263771000001" } \cup AgentSenders \cup AgentSet

\* The steps that store the reply as a field of a form.
FormSteps == { "get_quote_info", "get_support_details", "get_callback_details" }

\* What a user types into a form.
FreeText == { "alice" }

\* The replies the environment sends to a session at the given step, out of
\* replies: into a form, free text or a restart input; elsewhere, any reply.
Typed(replies, step) ==
  IF step \in FormSteps
    THEN { p \in replies : p \in FreeText \/ IsRestart(p) }
    ELSE replies

\* No reply has been matched.
NoProbe == [options |-> << >>, reply |-> "", selected |-> 0]

Init ==
  /\ sessions = [k \in Keys |-> EmptyDict]
  /\ convs = [c \in ConvIds |-> NoConv]
  /\ nextId = 1
  /\ out = << >>
  /\ http = 200
  /\ probe = NoProbe
  /\ waited = 0
  /\ race = << >>

\* The store as one inbound message finds it.
Store == [sessions |-> sessions, convs |-> convs, nextId |-> nextId, out |-> << >>]

\* The webhook hands one message to message_handler and answers.
Deliver(prompt, sender, env, limit) ==
  \E done \in { message_handler(prompt, sender, Store, env) } :
    /\ done.st.nextId <= limit + 1
    /\ sessions' = done.st.sessions
    /\ convs' = done.st.convs
    /\ nextId' = done.st.nextId
    /\ out' = done.st.out
    /\ http' = done.http
    /\ probe' = probe
    /\ waited' = 0
    /\ race' = race

Envs(nets) == [net : nets, agent : AgentSet, store : { "ok" }]

\* The replies the environment sends a sender, out of replies: an agent and
\* a customer in a live chat send any of them, another customer a restart
\* input or a reply typed for the stored step.
Inputs(replies, sender) ==
  IF IsAgentSender(sender) \/ InActiveChat(Store, sender)
    THEN replies
    ELSE { p \in replies :
             IsRestart(p) \/ p \in Typed(replies, CustomerState(Store, sender).step) }

\* One POST of one message of one sender.
webhook(senders, replies, nets, limit) ==
  \E sender \in senders, env \in Envs(nets) :
    \E prompt \in Inputs(replies, sender) : Deliver(prompt, sender, env, limit)

(***************************************************************************)
(* Spec: one customer walks the whole dialogue, one agent answers.         *)
(***************************************************************************)
Senders == { "263771000001", "+263785019494" }

\* The replies of the dialogue: list rows, buttons and typed text.
Replies ==
  { "hi", "Learn about Contessasoft", "Our Services", "Request a Quote",
    "Talk to Support", "Contact Us", "View our portfolio",
    "Download company profile", "Back to main menu", "Website Development",
    "Request Quote", "Back to Services", "Yes, call me",
    "No, just send the quote", "Technical support", "Request a call back",
    "Speak to an agent", "Yes", "No", "accept_chat", "reject_chat", "exit",
    "alice" }

Nets == { "ok" }

Next == webhook(Senders, Replies, Nets, MaxDialogueConvs)

Spec == Init /\ [][Next]_vars

(***************************************************************************)
(* HandoffSpec: two customers who ask for an agent, one agent.             *)
(***************************************************************************)
HandoffSenders == AllCustomers \cup AgentSenders

HandoffReplies ==
  { "hi", "Contact Us", "Speak to an agent", "accept_chat", "reject_chat",
    "exit", "alice" }

HandoffNext == webhook(HandoffSenders, HandoffReplies, Nets, MaxConvs)

HandoffSpec == Init /\ [][HandoffNext]_vars

(***************************************************************************)
(* MatchSpec: the matchers of the choice steps, applied to one option set  *)
(* and one reply at a time.                                                *)
(***************************************************************************)
\* A reply is matched the way handle_main_menu, handle_about_menu,
\* handle_chatbot_menu, handle_quote_followup, handle_support_menu and
\* handle_contact_menu match it.
MatchContaining ==
  \E options \in ContainmentSets, reply \in Spelled \ { "" } :
    /\ probe' = [options |-> options, reply |-> reply,
                 selected |-> SelectFirst(options, reply)]
    /\ UNCHANGED << sessions, convs, nextId, out, http, waited, race >>

\* A reply is matched the way handle_services_menu matches it.
MatchScored ==
  \E reply \in Spelled \ { "" } :
    /\ probe' = [options |-> ServiceOptions, reply |-> reply,
                 selected |-> SelectScored(reply)]
    /\ UNCHANGED << sessions, convs, nextId, out, http, waited, race >>

MatchNext == MatchContaining \/ MatchScored

MatchSpec == Init /\ [][MatchNext]_vars

\* Faults: the posts of a message may fail with an error status or with no
\* response at all, and the store may be unreachable while a message is
\* processed.
FaultEnvs ==
  [net : { "ok", "http_error", "conn_error" }, agent : AgentSet,
   store : { "ok", "down" }]

FaultNext ==
  \E sender \in Senders, env \in FaultEnvs :
    \E prompt \in Inputs({ "hi", "Our Services", "Website Development",
                           "Request Quote", "Contact Us", "Speak to an agent",
                           "accept_chat", "exit", "alice" }, sender) :
      Deliver(prompt, sender, env, MaxDialogueConvs)

FaultSpec == Init /\ [][FaultNext]_vars

(***************************************************************************)
(* Two inbound messages of one identifier processed at the same time.  The *)
(* webhook runs one call per request and nothing serializes the calls of   *)
(* one identifier; update_user_state reads the stored session, merges the  *)
(* updates into its copy and writes the copy back, and the other call may  *)
(* run between the read and the write.  race holds, per call, the dict the *)
(* call saves, the copy it has read and where it stands, and the order of  *)
(* the reads and writes so far.                                            *)
(***************************************************************************)
RaceKey == "263771000001"

\* Dicts that handlers hand to update_user_state.
RaceUpdates ==
  { StepDict("main_menu"), StepDict("contact_menu"),
    [EmptyDict EXCEPT !.step = "get_callback_details", !.name = "alice",
                      !.field = "time"],
    [EmptyDict EXCEPT !.step = "get_quote_info",
                      !.user = NewUser("", RaceKey), !.field = "name"],
    [EmptyDict EXCEPT !.step = "agent_response", !.conversation_id = 1,
                      !.active_chat = TRUE] }

RaceInit ==
  /\ sessions \in { [k \in Keys |-> EmptyDict],
                    [k \in Keys |->
                       IF k = RaceKey
                         THEN UpdatedState(get_user_state(
                                [sessions |-> [j \in Keys |-> EmptyDict]], k),
                                k, StepDict("main_menu"))
                         ELSE EmptyDict] }
  /\ convs = [c \in ConvIds |-> NoConv]
  /\ nextId = 1
  /\ out = << >>
  /\ http = 200
  /\ probe = NoProbe
  /\ waited = 0
  /\ race \in [updates : [1..2 -> RaceUpdates],
               current : { [p \in 1..2 |-> EmptyDict] },
               pc : { [p \in 1..2 |-> "read"] },
               log : { << >> },
               start : { EmptyDict }]

\* current = get_user_state(phone_number)
Load(p) ==
  /\ race.pc[p] = "read"
  /\ race' = [race EXCEPT !.current[p] = get_user_state(Store, RaceKey),
                          !.pc[p] = "write",
                          !.log = Append(@, p),
                          !.start = IF race.log = << >>
                                      THEN get_user_state(Store, RaceKey)
                                      ELSE @]
  /\ UNCHANGED << sessions, convs, nextId, out, http, probe, waited >>

\* A save under a lock: the stored session is read again and merged.
SaveStateLocked(st, phone_number, current, updates) ==
  update_user_state(st, phone_number, updates)

\* current.update(updates); ...; redis_client.setex(key, 86400, dumps(current))
SaveState(st, phone_number, current, updates) ==
  [st EXCEPT !.sessions[phone_number] =
     UpdatedState(current, phone_number, updates)]

Save(p) ==
  /\ race.pc[p] = "write"
  /\ sessions' = SaveState(Store, RaceKey, race.current[p],
                           race.updates[p]).sessions
  /\ race' = [race EXCEPT !.pc[p] = "done", !.log = Append(@, p)]
  /\ UNCHANGED << convs, nextId, out, http, probe, waited >>

RaceNext == \E p \in 1..2 : Load(p) \/ Save(p)

RaceSpec == RaceInit /\ [][RaceNext]_vars

(***************************************************************************)
(* The accept of the agent and a message of the waiting customer processed *)
(* at the same time, one webhook call each.  Each call is a sequence of    *)
(* store reads and writes, and the steps of the two calls interleave.      *)
(* race holds the two messages, where each call stands and what it has     *)
(* read: user_state and current for the customer's call, state and         *)
(* customer_current for the agent's.  out collects the posts of both.      *)
(***************************************************************************)
RaceEnv == [net |-> "ok", agent |-> AGENT_NUMBERS[1], store |-> "ok"]

\* The sessions and the record human_agent leaves when customer k asks for
\* an agent out of the contact menu: record 1 is Requested, the customer
\* waits on it and the session of the agent references it.
RequestedSessions(k) ==
  LET agent == AGENT_NUMBERS[1]
      waiting(j) == UpdatedState(get_user_state(
                      [sessions |-> [i \in Keys |-> EmptyDict]], j), j,
                      [EmptyDict EXCEPT !.step = "agent_response",
                                        !.conversation_id = 1,
                                        !.awaiting_agent_response = TRUE])
  IN  [j \in Keys |->
         IF j = k
           THEN [waiting(j) EXCEPT !.assigned_agent = agent,
                                   !.agent_handover = TRUE]
         ELSE IF j = agent THEN waiting(j)
         ELSE EmptyDict]

AcceptRaceInit ==
  /\ \E k \in AllCustomers :
       /\ sessions = RequestedSessions(k)
       /\ convs = [c \in ConvIds |->
                     IF c = 1
                       THEN [customer |-> k, agent |-> AGENT_NUMBERS[1],
                             active |-> FALSE]
                       ELSE NoConv]
       /\ race \in [customer : { k },
                    prompt : { "alice", "hi", "accept_chat", "hello there" },
                    agent_sender : AgentSenders,
                    agent_prompt : { "accept_chat", "I accept cards" },
                    pc : { "receive" }, agent_pc : { "receive" },
                    user_state : { EmptyDict }, updated_state : { EmptyDict },
                    current : { EmptyDict }, state : { EmptyDict },
                    customer_current : { EmptyDict }]
  /\ nextId = 2
  /\ out = << >>
  /\ http = 200
  /\ probe = NoProbe
  /\ waited = 0

\* The handler message_handler picks for a customer's message, given the
\* session it has read.
CustomerHandler(prompt, user_state, st, env) ==
  IF user_state.step = "agent_response" /\ user_state.active_chat
    THEN agent_response(prompt, user_state, st, env)
  ELSE IF IsRestart(prompt)
    THEN get_action("welcome", "",
           [EmptyDict EXCEPT !.step = "welcome", !.sender = user_state.sender],
           st, env)
  ELSE get_action(user_state.step, prompt, user_state, st, env)

\* user_state = get_user_state(sender); user_state['sender'] = sender
Receive ==
  /\ race.pc = "receive"
  /\ race' = [race EXCEPT !.user_state = CustomerState(Store, race.customer),
                          !.pc = "handle"]
  /\ UNCHANGED << sessions, convs, nextId, out, http, probe, waited >>

\* updated_state = get_action(step, prompt, user_state, phone_id), or the
\* live-chat or restart branch: the handler runs with the session read
\* before, on the store as it is now.
Handle ==
  /\ race.pc = "handle"
  /\ \E done \in { CustomerHandler(race.prompt, race.user_state, Store, RaceEnv) } :
       /\ ~done.none
       /\ sessions' = done.st.sessions
       /\ convs' = done.st.convs
       /\ out' = out \o done.st.out
       /\ race' = [race EXCEPT !.updated_state = done.ret, !.pc = "load"]
  /\ UNCHANGED << nextId, http, probe, waited >>

\* update_user_state(sender, updated_state): current = get_user_state(sender)
LoadOwn ==
  /\ race.pc = "load"
  /\ race' = [race EXCEPT !.current = get_user_state(Store, race.customer),
                          !.pc = "save"]
  /\ UNCHANGED << sessions, convs, nextId, out, http, probe, waited >>

\* ... current.update(updates); redis_client.setex(key, 86400, dumps(current))
SaveOwn ==
  /\ race.pc = "save"
  /\ sessions' = SaveState(Store, race.customer, race.current,
                           race.updated_state).sessions
  /\ race' = [race EXCEPT !.pc = "done"]
  /\ UNCHANGED << convs, nextId, out, http, probe, waited >>

\* The agent branch of message_handler reads the agent's session.
AgentReceive ==
  /\ race.agent_pc = "receive"
  /\ sessions' = AgentEntry(Store, race.agent_sender).st.sessions
  /\ race' = [race EXCEPT !.state = AgentEntry(Store, race.agent_sender).state,
                          !.agent_pc = "decide"]
  /\ UNCHANGED << convs, nextId, out, http, probe, waited >>

\* agent_response reads the record, finds it not active, its agent the
\* sender and the text an accept: both parties are told and the record is
\* written back active.
Activate ==
  /\ race.agent_pc = "decide"
  /\ LET conversation_id == race.state.conversation_id
         conv_data == ConvGet(Store, conversation_id)
         told == send_message(Store, RaceEnv, "agent_joined",
                              conv_data.customer, "")
         connected == send_message(told, RaceEnv, "agent_connected",
                                   race.state.sender, "")
     IN  /\ conversation_id # 0 /\ conv_data # NoConv
         /\ ~conv_data.active
         /\ IsAssignedAgent(race.state, conv_data)
         /\ IsAccept(race.agent_prompt)
         /\ convs' = ConvSet(connected, conversation_id,
                             [conv_data EXCEPT !.active = TRUE]).convs
         /\ out' = out \o connected.out
  /\ race' = [race EXCEPT !.agent_pc = "load_customer"]
  /\ UNCHANGED << sessions, nextId, http, probe, waited >>

\* update_user_state(customer_number, customer_state): the read
LoadCustomer ==
  /\ race.agent_pc = "load_customer"
  /\ race' = [race EXCEPT
                !.customer_current = get_user_state(Store, race.customer),
                !.agent_pc = "save_customer"]
  /\ UNCHANGED << sessions, convs, nextId, out, http, probe, waited >>

\* update_user_state(customer_number, customer_state): the write
SaveCustomer ==
  /\ race.agent_pc = "save_customer"
  /\ sessions' = SaveState(Store, race.customer, race.customer_current,
                   [EmptyDict EXCEPT !.step = "agent_response",
                                     !.conversation_id =
                                        race.state.conversation_id,
                                     !.active_chat = TRUE,
                                     !.sender = race.customer]).sessions
  /\ race' = [race EXCEPT !.agent_pc = "save_agent"]
  /\ UNCHANGED << convs, nextId, out, http, probe, waited >>

\* The two updates of the agent's own session, which no other call writes:
\* under the sender of the session read, then under the sender delivered.
SaveAgent ==
  /\ race.agent_pc = "save_agent"
  /\ LET chat == [EmptyDict EXCEPT !.step = "agent_response",
                                   !.conversation_id =
                                      race.state.conversation_id,
                                   !.active_chat = TRUE]
     IN  sessions' =
           update_user_state(
             update_user_state(Store, race.state.sender,
                               [chat EXCEPT !.sender = race.state.sender]),
             race.agent_sender, chat).sessions
  /\ race' = [race EXCEPT !.agent_pc = "done"]
  /\ UNCHANGED << convs, nextId, out, http, probe, waited >>

AcceptRaceNext ==
  \/ Receive \/ Handle \/ LoadOwn \/ SaveOwn
  \/ AgentReceive \/ Activate \/ LoadCustomer \/ SaveCustomer \/ SaveAgent

AcceptRaceSpec == AcceptRaceInit /\ [][AcceptRaceNext]_vars
(***************************************************************************)
(* Properties.  The store of a state is Store; a property about the        *)
(* processing of a message applies message_handler to Store and reads the  *)
(* store it returns.                                                       *)
(***************************************************************************)
\* The sessions that were written at least once.
Written == { k \in Keys : sessions[k] # EmptyDict }

\* The handoff record c is pending / live.
Requested(c) == convs[c] # NoConv /\ ~convs[c].active
Active(c) == convs[c] # NoConv /\ convs[c].active

\* The forms of an agent's number a message of that agent may carry.
AgentForms(agent) ==
  { sender \in AgentSenders : sender = agent \/ NormalizedOf[sender] = agent }

AcceptReplies == { p \in Spelled : IsAccept(p) }
RejectReplies == { p \in Spelled : IsReject(p) /\ ~IsAccept(p) }
ExitReplies == { p \in Spelled : IsExit(p) }
ChatReplies == { p \in Spelled : p # "" /\ ~IsExit(p) }

\* C1 -- the step stored in a session is always a key of action_mapping.
StoredStepIsDispatchKey == \A k \in Written : sessions[k].step \in ActionSteps

\* C2 -- no failure of a step handler reaches the transport: the webhook
\* answers every inbound message with 200, never with an error.
FailureNeverReachesTransport == http = 200

\* C3 -- when the assigned agent of a pending handoff record sends an accept
\* reply, that record becomes live and both the customer's and the agent's
\* session are at the live-chat step, referencing the record.
AcceptActivatesRequest ==
  \A c \in ConvIds : Requested(c) =>
    \A sender \in AgentForms(convs[c].agent), prompt \in AcceptReplies,
       env \in Envs(Nets) :
      LET after == message_handler(prompt, sender, Store, env).st
          customer == after.sessions[convs[c].customer]
          agent == after.sessions[convs[c].agent]
      IN  /\ after.convs[c] = [convs[c] EXCEPT !.active = TRUE]
          /\ customer.step = "agent_response" /\ customer.conversation_id = c
          /\ agent.step = "agent_response" /\ agent.conversation_id = c

\* C4 -- when the assigned agent of a pending handoff record sends a reject
\* reply, that record is deleted and the customer's session is back in the
\* welcome flow (the main menu the welcome handler enters).
RejectDeletesRequest ==
  \A c \in ConvIds : Requested(c) =>
    \A sender \in AgentForms(convs[c].agent), prompt \in RejectReplies,
       env \in Envs(Nets) :
      LET after == message_handler(prompt, sender, Store, env).st
      IN  /\ after.convs[c] = NoConv
          /\ after.sessions[convs[c].customer].step = "main_menu"

\* C5 -- while a handoff record is live, a message of its customer other
\* than the exit keyword is forwarded to the agent, both sessions stay at
\* the live-chat step and the record stays as it is.
ChatMessageIsForwarded ==
  \A c \in ConvIds : Active(c) =>
    \A prompt \in ChatReplies, env \in Envs(Nets) :
      LET after == message_handler(prompt, convs[c].customer, Store, env).st
      IN  /\ \E i \in 1..Len(after.out) :
               /\ after.out[i].to = convs[c].agent
               /\ after.out[i].text = "customer_says"
               /\ after.out[i].arg = prompt
          /\ after.sessions[convs[c].customer].step = "agent_response"
          /\ after.sessions[convs[c].agent].step = "agent_response"
          /\ after.convs = convs

\* C6 -- while a handoff record is live, the exit keyword of either party
\* deletes the record and puts the customer at the restart confirmation.
ExitEndsChat ==
  \A c \in ConvIds : Active(c) =>
    \A sender \in { convs[c].customer } \cup AgentForms(convs[c].agent),
       prompt \in ExitReplies, env \in Envs(Nets) :
      LET after == message_handler(prompt, sender, Store, env).st
      IN  /\ after.convs[c] = NoConv
          /\ after.sessions[convs[c].customer].step = "restart_confirmation"

\* The live records of an agent / of a customer.
LiveOfAgent(agent) == { c \in ConvIds : Active(c) /\ convs[c].agent = agent }
LiveOfCustomer(customer) ==
  { c \in ConvIds : Active(c) /\ convs[c].customer = customer }

\* C7 -- an agent is in at most one live conversation at a time.
OneLiveChatPerAgent == \A agent \in AgentSet : Cardinality(LiveOfAgent(agent)) <= 1

\* C8 -- a customer is in at most one live conversation at a time.
OneLiveChatPerCustomer ==
  \A customer \in AllCustomers : Cardinality(LiveOfCustomer(customer)) <= 1

\* A customer is in a live chat while an older request of the same customer
\* is still pending.
LiveChatBesidePendingRequest ==
  \E c, d \in ConvIds :
    /\ Active(c) /\ Requested(d)
    /\ convs[c].customer = convs[d].customer

\* The steps that offer a set of options.
ChoiceSteps ==
  { "main_menu", "about_menu", "services_menu", "service_detail",
    "quote_followup", "support_menu", "contact_menu", "restart_confirmation" }

\* The handler of the step finds no option in the reply.
MatchesNoOption(step, prompt) ==
  CASE step = "main_menu" -> SelectFirst(MainMenuOptions, prompt) = 0
    [] step = "about_menu" -> SelectFirst(AboutOptions, prompt) = 0
    [] step = "services_menu" -> SelectScored(prompt) = 0
    [] step = "service_detail" -> ~WantsQuoteOf[prompt] /\ ~WantsBackOf[prompt]
    [] step = "quote_followup" -> SelectFirst(QuoteOptions, prompt) = 0
    [] step = "support_menu" -> SelectFirst(SupportOptions, prompt) = 0
    [] step = "contact_menu" -> SelectFirst(ContactOptions, prompt) = 0
    [] step = "restart_confirmation" ->
         ~RestartYesOf[prompt] /\ ~RestartNoOf[prompt]
    [] OTHER -> FALSE

\* The session of sender is the same after the message as before it.
KeepsSession(prompt, sender) ==
  \A env \in Envs(Nets) :
    message_handler(prompt, sender, Store, env).st.sessions[sender]
      = sessions[sender]

\* C9 (as stated) -- in every choice step, a reply that matches no option of
\* the step leaves the step and every other field of the stored session as
\* they were.
NoMatchKeepsSession ==
  \A sender \in Written : sessions[sender].step \in ChoiceSteps =>
    \A prompt \in Spelled \ { "" } :
      MatchesNoOption(sessions[sender].step, prompt) => KeepsSession(prompt, sender)

\* C9 (amended) -- in every choice step of a sender that is not an agent
\* number, a reply that is not a restart input and matches no option of the
\* step leaves the step and every other field of the stored session as they
\* were.
NoMatchKeepsCustomerSession ==
  \A sender \in Written :
    ~IsAgentSender(sender) /\ sessions[sender].step \in ChoiceSteps =>
      \A prompt \in Spelled \ { "" } :
        ~IsRestart(prompt) /\ MatchesNoOption(sessions[sender].step, prompt)
          => KeepsSession(prompt, sender)

\* A customer below the main menu was just told that the reply matches no
\* option, and is still at a choice step.
UnmatchedReplyAnswered ==
  \E sender \in Written :
    /\ ~IsAgentSender(sender)
    /\ sessions[sender].step \in ChoiceSteps \ { "main_menu" }
    /\ out # << >>
    /\ out[1].to = sender /\ out[1].text = "invalid_selection"

\* C10 -- a reply equal to a label of the option set it is matched against
\* selects the option of that label, whatever the other options of the set
\* and the position of the option.
ExactLabelIsSelected ==
  \A i \in 1..Len(probe.options) :
    probe.reply = probe.options[i] => probe.selected = i

\* The third service, whose label shares a word with the second, was sent
\* as the reply and was selected.
ExactLabelAmongSimilar ==
  /\ probe.options = ServiceOptions
  /\ probe.reply = ServiceOptions[3]
  /\ probe.selected = 3


(***************************************************************************)
(* Scored matching, restart inputs and the pending handoff request.        *)
(***************************************************************************)

\* C11 -- for a reply that equals no service label, the services menu selects
\* the first-declared option among those with the highest score when that
\* score is above 0, and no option when every score is 0; the scores are
\* len(reply)/len(label) for a reply contained in the lowercased label, 0.5
\* for a reply one of whose words is contained in it, and 0 otherwise.  The
\* reply "dom" selects "Domain Registration".
HighestScoreIsSelected ==
  LET reply == Clean(probe.reply)
      score == [i \in 1..Len(ServiceOptions) |->
                  MatchScore(reply, LowerOf[ServiceOptions[i]])]
      positive == { i \in 1..Len(ServiceOptions) : score[i][1] > 0 }
      highest == { i \in positive :
                     \A j \in positive :
                       score[i][1] * score[j][2] >= score[j][1] * score[i][2] }
  IN  /\ probe.options = ServiceOptions
      /\ \A i \in 1..Len(ServiceOptions) : reply # LowerOf[ServiceOptions[i]]
      => /\ positive = {} => probe.selected = 0
         /\ positive # {} =>
              /\ probe.selected \in highest
              /\ \A j \in highest : probe.selected <= j
         /\ reply = Clean("dom") =>
              /\ probe.selected # 0
              /\ ServiceOptions[probe.selected] = "Domain Registration"

\* The reply "I accept cards" equals no label and is contained in none; its
\* word "i" is contained in several labels, which tie at 0.5, and the first
\* of them was selected.
TiedScoresSelectFirst ==
  /\ probe.options = ServiceOptions
  /\ probe.reply = "I accept cards"
  /\ Contains("i", LowerOf[ServiceOptions[2]])
  /\ probe.selected = 1


\* C12 -- a restart input ("hi", "hello", "hie", "hey", "start", trimmed and
\* lowercased) is handled by the welcome handler whatever the step of the
\* sender's session: the sender is sent the welcome menu and the session is
\* at the step the welcome handler enters.  Stated for the customers that
\* are in no live conversation; the claim makes it for every sender.
RestartReentersWelcome ==
  \A sender \in AllCustomers : LiveOfCustomer(sender) = {} =>
    \A prompt \in { p \in Spelled : IsRestart(p) }, env \in Envs(Nets) :
      LET after == message_handler(prompt, sender, Store, env).st
      IN  /\ after.sessions[sender].step = "main_menu"
          /\ after.out # << >>
          /\ after.out[1].to = sender /\ after.out[1].text = "welcome"

\* C13 as stated -- while a handoff record is pending, every message of its
\* customer is not relayed to the agent, the customer is told to wait and
\* the record stays pending.
PendingCustomerIsToldToWait ==
  \A c \in ConvIds : Requested(c) =>
    \A prompt \in Spelled \ { "" }, env \in Envs(Nets) :
      LET after == message_handler(prompt, convs[c].customer, Store, env).st
      IN  /\ \A i \in 1..Len(after.out) : after.out[i].text # "customer_says"
          /\ \E i \in 1..Len(after.out) :
               /\ after.out[i].to = convs[c].customer
               /\ after.out[i].text = "please_wait"
          /\ after.convs[c] = convs[c]

\* C13 -- while a handoff record is pending and the session of its customer
\* waits on it (handoff step, referencing the record), a message of the
\* customer that is no restart input is not relayed to the agent, the
\* customer is told to wait, the record stays pending and the session keeps
\* waiting on it.
WaitingCustomerIsToldToWait ==
  \A c \in ConvIds :
    /\ Requested(c)
    /\ sessions[convs[c].customer].step = "agent_response"
    /\ sessions[convs[c].customer].conversation_id = c
    => \A prompt \in { p \in Spelled \ { "" } : ~IsRestart(p) },
          env \in Envs(Nets) :
         LET after == message_handler(prompt, convs[c].customer, Store, env).st
         IN  /\ \A i \in 1..Len(after.out) : after.out[i].text # "customer_says"
             /\ \E i \in 1..Len(after.out) :
                  /\ after.out[i].to = convs[c].customer
                  /\ after.out[i].text = "please_wait"
             /\ after.convs[c] = convs[c]
             /\ after.sessions[convs[c].customer].step = "agent_response"
             /\ after.sessions[convs[c].customer].conversation_id = c

\* The customer of a pending record wrote while waiting on it and was told
\* to wait; nothing went to the agent.
WaitingCustomerWasToldToWait ==
  \E c \in ConvIds :
    /\ Requested(c)
    /\ sessions[convs[c].customer].step = "agent_response"
    /\ sessions[convs[c].customer].conversation_id = c
    /\ Len(out) = 1
    /\ out[1].to = convs[c].customer /\ out[1].text = "please_wait"


\* C14 -- while a handoff record is pending, a message of its assigned agent
\* that is neither an accept nor a reject reply is not relayed to the
\* customer, the agent is asked again to accept or reject, the record stays
\* pending and the agent's session stays at the handoff step, referencing
\* the record.
OtherReplyAsksAgentAgain ==
  \A c \in ConvIds : Requested(c) =>
    \A sender \in AgentForms(convs[c].agent),
       prompt \in { p \in Spelled \ { "" } : ~IsAccept(p) /\ ~IsReject(p) },
       env \in Envs(Nets) :
      LET after == message_handler(prompt, sender, Store, env).st
          agent == after.sessions[convs[c].agent]
      IN  /\ \A i \in 1..Len(after.out) :
               after.out[i].to # convs[c].customer
          /\ \E i \in 1..Len(after.out) :
               /\ after.out[i].to = convs[c].agent
               /\ after.out[i].text = "invalid_accept_reject"
          /\ after.convs[c] = convs[c]
          /\ agent.step = "agent_response" /\ agent.conversation_id = c

\* C15 -- while a handoff record is live, every message of its agent other
\* than the exit keyword is relayed to the customer of that record, whatever
\* its text and whatever other customers have requested meanwhile.  Stated
\* for the messages delivered under the agent's number as the record holds
\* it.
AgentMessageIsRelayed ==
  \A c \in ConvIds : Active(c) =>
    \A prompt \in ChatReplies, env \in Envs(Nets) :
      LET after == message_handler(prompt, convs[c].agent, Store, env).st
      IN  \E i \in 1..Len(after.out) :
            /\ after.out[i].to = convs[c].customer
            /\ after.out[i].text = "agent_says"
            /\ after.out[i].arg = prompt

(***************************************************************************)
(* Time.  The program has one entry point that changes the store, the      *)
(* webhook; it starts no thread, timer or scheduled job.  While a request  *)
(* is pending and no message arrives, time passes and nothing is sent.     *)
(***************************************************************************)
Tick ==
  /\ \E c \in ConvIds : Requested(c)
  /\ waited < WaitLimit
  /\ waited' = waited + 1
  /\ out' = << >>
  /\ UNCHANGED << sessions, convs, nextId, http, probe, race >>

WaitNext ==
  \/ webhook(HandoffSenders, HandoffReplies, Nets, MaxDialogueConvs)
  \/ Tick

WaitSpec == Init /\ [][WaitNext]_vars /\ WF_vars(Tick)

\* C16 -- when a handoff request has stayed pending for the bounded wait
\* with no message arriving, the customer has been sent the fallback offer
\* (the manual contact path and the choice to keep waiting or to return to
\* the menu).
FallbackOfferedAfterWait ==
  \A c \in ConvIds : Requested(c) /\ waited = WaitLimit =>
    \E i \in 1..Len(out) :
      /\ out[i].to = convs[c].customer
      /\ out[i].text = "fallback_offer"

\* C17 -- every live handoff record is referenced by the session of its
\* customer and by the session of its agent: both are at the handoff step
\* and carry the id of the record.
LiveRecordIsReferenced ==
  \A c \in ConvIds : Active(c) =>
    /\ sessions[convs[c].customer].step = "agent_response"
    /\ sessions[convs[c].customer].conversation_id = c
    /\ sessions[convs[c].agent].step = "agent_response"
    /\ sessions[convs[c].agent].conversation_id = c

\* C18 -- a session carries handoff data (conversation_id, assigned_agent,
\* active_chat, awaiting_agent_response) only while a handoff record of
\* that party, as customer or as agent, exists.
HandoffDataOnlyDuringHandoff ==
  \A k \in Keys :
    \/ /\ sessions[k].conversation_id = 0
       /\ sessions[k].assigned_agent = Absent
       /\ ~sessions[k].active_chat
       /\ ~sessions[k].awaiting_agent_response
    \/ \E c \in ConvIds :
         /\ convs[c] # NoConv
         /\ \/ convs[c].customer = k
            \/ convs[c].agent = k
            \/ convs[c].agent = NormalizedOf[k]

\* C19 -- when the quote form of a customer has been completed and its
\* confirmation was sent, the session is at the step the welcome handler
\* enters and no longer marks a form as in progress: it holds no pointer to
\* a field to collect.
CompletedQuoteFormIsClosed ==
  \A k \in AllCustomers :
    (\E i \in 1..Len(out) :
       /\ out[i].to = k
       /\ out[i].text \in { "quote_submitted", "quote_submitted_call" })
    => /\ sessions[k].step \in { "welcome", "main_menu" }
       /\ sessions[k].field = Absent

\* C20 -- get_user_state of an identifier with no stored session returns
\* the default session, step "welcome" and the identifier as sender and
\* nothing else, and the first message of such an identifier is processed
\* like any other: it is answered with 200 and leaves a stored session at a
\* step of action_mapping.
AbsentSessionReadsAsDefault ==
  \A k \in Keys \ Written :
    /\ get_user_state(Store, k) =
         [EmptyDict EXCEPT !.step = "welcome", !.sender = k]
    /\ \A prompt \in Replies, env \in Envs(Nets) :
         LET done == message_handler(prompt, k, Store, env)
         IN  /\ done.http = 200
             /\ done.st.sessions[k] # EmptyDict
             /\ done.st.sessions[k].step \in ActionSteps

\* The first message of a customer was processed while another session was
\* already stored: the customer was sent the welcome menu and its session,
\* the only one under its identifier, is at the main menu.
FirstMessageWasProcessed ==
  \E k \in AllCustomers :
    /\ Written \ { k } # {}
    /\ sessions[k] = [EmptyDict EXCEPT !.step = "main_menu", !.sender = k,
                                       !.phone_number = k]
    /\ out # << >>
    /\ out[1].to = k /\ out[1].text = "welcome"
    /\ http = 200


(***************************************************************************)
(* Faults of the channel and of the store, identifiers, prompt limits.     *)
(***************************************************************************)

\* C21 -- whenever a list or button prompt fails to be sent, whatever the
\* failure, the same prompt is sent to the same recipient as a plain-text
\* message.
FailedPromptIsSentAsText ==
  \A i \in 1..Len(out) :
    out[i].kind \in { "list", "button" } /\ ~out[i].ok =>
      \E j \in 1..Len(out) :
        /\ j > i
        /\ out[j].kind = "text"
        /\ out[j].to = out[i].to
        /\ out[j].text = out[i].text

\* C22 -- when the session store fails while a message is processed, the
\* webhook call still completes normally: it answers 200, never an error.
StoreErrorNeverSurfaces ==
  \A sender \in Senders, prompt \in Replies, env \in FaultEnvs :
    env.store = "down" => message_handler(prompt, sender, Store, env).http = 200

\* C23 -- when a session is at the handoff step and references a handoff
\* record that no longer exists, the next message of that party, whatever
\* its text, is answered with the notice that the conversation is no longer
\* valid and takes the session out of the handoff step.
MissingRecordEndsHandoff ==
  \A k \in Written :
    /\ sessions[k].step = "agent_response"
    /\ sessions[k].conversation_id # 0
    /\ convs[sessions[k].conversation_id] = NoConv
    => \A prompt \in Spelled \ { "" }, env \in Envs(Nets) :
         LET after == message_handler(prompt, k, Store, env).st
         IN  /\ \E i \in 1..Len(after.out) :
                  /\ after.out[i].to = k
                  /\ after.out[i].text = "conversation_not_found"
             /\ after.sessions[k].step # "agent_response"

\* C24 -- two sender identifiers with the same canonical form share one
\* session: what a message of one of them leaves stored is what the other
\* one reads.
CanonicalFormSharesSession ==
  \A a, b \in Keys : NormalizedOf[a] = NormalizedOf[b] =>
    \A prompt \in Replies, env \in Envs(Nets) :
      LET after == message_handler(prompt, a, Store, env).st
      IN  StoredState(after, a) = StoredState(after, b)


\* C25 -- entering the handoff again creates no second handoff record for a
\* customer who already has one, pending or live: a customer is the
\* customer of at most one record.
OneRecordPerCustomer ==
  \A k \in AllCustomers :
    Cardinality({ c \in ConvIds : convs[c] # NoConv /\ convs[c].customer = k })
      <= 1

\* C26 -- every button prompt sent carries at most 3 options and every list
\* prompt at most 10, and what is sent is a whole option set of the catalog:
\* no set is cut to fit the limit of the prompt kind it is sent with.
PromptFitsItsKind ==
  \A i \in 1..Len(out) :
    /\ out[i].kind = "button" =>
         /\ Len(out[i].opts) <= 3
         /\ out[i].opts \in { RestartButtons, AgentButtons, ServiceButtons }
    /\ out[i].kind = "list" =>
         /\ Len(out[i].opts) <= 10
         /\ out[i].opts \in { MainMenuOptions, AboutOptions, ServiceOptions,
                              QuoteOptions, SupportOptions, ContactOptions }

\* The agent was sent the chat request with both of its buttons.
AgentWasSentButtons ==
  \E i \in 1..Len(out) :
    /\ out[i].kind = "button"
    /\ out[i].opts = AgentButtons
    /\ out[i].to \in AgentSet

\* C28 -- a failed outbound send never blocks the saving of the session:
\* for every sender and reply, the step every session is stored with after
\* the message is the same whether the posts of that message succeed or
\* fail, with an error status or with no response.
SendFailureKeepsStep ==
  \A sender \in Senders, prompt \in Replies, env \in FaultEnvs :
    env.store = "ok" =>
      LET sent == message_handler(prompt, sender, Store,
                                  [env EXCEPT !.net = "ok"])
          failed == message_handler(prompt, sender, Store, env)
      IN  /\ failed.http = sent.http
          /\ \A k \in Keys :
               failed.st.sessions[k].step = sent.st.sessions[k].step

\* The post of a service's details failed, and the customer's session is
\* at the details of that service all the same.
FailedSendWasSaved ==
  \E k \in AllCustomers :
    /\ out # << >>
    /\ out[1].to = k /\ out[1].text = "service_info" /\ ~out[1].ok
    /\ sessions[k].step = "service_detail"
    /\ sessions[k].selected_service # Absent


\* C29 -- the main, about, quote follow-up, support and contact menus select
\* the option the scoring loop of the services menu would select for the
\* same option set and reply.
MenusSelectLikeServices ==
  probe.options \in { MainMenuOptions, AboutOptions, QuoteOptions,
                      SupportOptions, ContactOptions }
    => probe.selected =
         ScoreFrom(probe.options, Clean(probe.reply), 1, << 0, 1 >>, 0)

\* C30 -- every time a customer enters the callback form from the contact
\* menu, the first reply is stored as the name and asks for the time: the
\* owner is not notified and the session stays in the form until the second
\* reply.
CallbackFormAsksNameFirst ==
  \A k \in AllCustomers :
    sessions[k].step = "contact_menu" /\ ~InActiveChat(Store, k) =>
      \A env \in Envs(Nets) :
        LET entered == message_handler("Request a call back", k, Store, env).st
            first == message_handler("alice", k, [entered EXCEPT !.out = << >>],
                                     env)
        IN  /\ first.http = 200
            /\ first.st.sessions[k].step = "get_callback_details"
            /\ first.st.sessions[k].name = "alice"
            /\ \A i \in 1..Len(first.st.out) :
                 first.st.out[i].to # owner_phone

\* C27 -- the read-modify-write of a session is not atomic.  When two calls
\* of update_user_state for one identifier have both finished, the stored
\* session is the result of the two updates in the order of their writes if
\* the second call read after the first one wrote; if both read before
\* either wrote, it is the session that was read with the update of the
\* last writer only: the update of the other call is lost.
OverlappedUpdateIsLost ==
  race.pc[1] = "done" /\ race.pc[2] = "done" =>
    LET last == race.log[4]
        lost == 3 - last
        only == UpdatedState(race.start, RaceKey, race.updates[last])
        both == UpdatedState(
                  UpdatedState(race.start, RaceKey, race.updates[lost]),
                  RaceKey, race.updates[last])
    IN  IF race.log[1] # race.log[2]
          THEN sessions[RaceKey] = only
          ELSE sessions[RaceKey] = both

\* Both calls have finished and the stored session is the result of neither
\* order of the two updates: a field one call saved is gone.
UpdateWasLost ==
  /\ race.pc[1] = "done" /\ race.pc[2] = "done"
  /\ \A p \in 1..2 :
       sessions[RaceKey] #
         UpdatedState(UpdatedState(race.start, RaceKey, race.updates[p]),
                      RaceKey, race.updates[3 - p])
  /\ \E p \in 1..2 :
       /\ race.updates[p].name # Absent
       /\ sessions[RaceKey].name = Absent


(***************************************************************************)
(* The quote form, handoff requests and their decisions, dispatch.         *)
(***************************************************************************)

\* What handle_get_quote_info does with one reply of customer k that is not
\* a restart input: the reply is stored under the field being collected and
\* the next field of name, email, service_type, description is asked for,
\* the session staying in the form and the owner not written to; the
\* description ends the form and the owner is sent the request once.
QuoteReply(k, prompt, env) ==
  LET before == sessions[k]
      done == message_handler(prompt, k, Store, env)
      after == done.st.sessions[k]
      told == { i \in 1..Len(done.st.out) : done.st.out[i].to = owner_phone }
      kept == /\ after.step = "get_quote_info"
              /\ told = { }
  IN  /\ done.http = 200
      /\ before.field \in { "name", "email", "service_type", "description" }
      /\ before.field = "name" =>
           kept /\ after.field = "email" /\ after.user.name = prompt
      /\ before.field = "email" =>
           kept /\ after.field = "service_type" /\ after.user.email = prompt
      /\ before.field = "service_type" =>
           /\ kept /\ after.field = "description"
           /\ after.user.service_type \in { prompt, "Other" }
      /\ before.field = "description" =>
           /\ after.step = "quote_followup"
           /\ after.user.project_description = prompt
           /\ Cardinality(told) = 1
           /\ \A i \in told : done.st.out[i].text = "admin_quote_request"

\* C31 -- the quote form collects name, email, service_type, description in
\* that order, one field per message of the customer that is not a restart
\* input; the session stays at get_quote_info until the description is
\* received, whatever else is delivered meanwhile, and the owner is sent the
\* request exactly once, with the description.
QuoteFormStaysUntilDescription ==
  \A k \in AllCustomers : sessions[k].step = "get_quote_info" =>
    \A env \in Envs(Nets) :
      /\ \A prompt \in Replies : ~IsRestart(prompt) => QuoteReply(k, prompt, env)
      /\ \A sender \in Senders \ { k }, prompt \in Replies :
           message_handler(prompt, sender, Store, env).st.sessions[k].step
             = "get_quote_info"

\* C31, amended -- as above, except that the session also leaves the form
\* when the agent accepts or rejects a handoff request the customer made
\* before entering the form.
QuoteFormCollectsInOrder ==
  \A k \in AllCustomers : sessions[k].step = "get_quote_info" =>
    \A env \in Envs(Nets) :
      /\ \A prompt \in Replies : ~IsRestart(prompt) => QuoteReply(k, prompt, env)
      /\ \A sender \in Senders \ { k }, prompt \in Replies :
           \/ message_handler(prompt, sender, Store, env).st.sessions[k].step
                = "get_quote_info"
           \/ /\ IsAgentSender(sender)
              /\ IsAccept(prompt) \/ IsReject(prompt)
              /\ \E c \in ConvIds : Requested(c) /\ convs[c].customer = k

\* The description was received: the owner was sent the quote request and
\* the customer's session has left the form with all four fields.
QuoteRequestWasSent ==
  \E k \in AllCustomers :
    /\ sessions[k].step = "quote_followup"
    /\ sessions[k].user.name = "alice"
    /\ sessions[k].user.project_description = "alice"
    /\ \E i \in 1..Len(out) :
         out[i].to = owner_phone /\ out[i].text = "admin_quote_request"

\* C32 -- every handoff record that is Requested can be decided: an accept
\* message of its assigned agent activates that record and a reject message
\* deletes it, however many other customers asked for the same agent before
\* or after it.  Stated for the customers that have one record.
RequestedRecordIsDecidable ==
  \A c \in ConvIds :
    /\ Requested(c)
    /\ \A d \in ConvIds \ { c } :
         convs[d] # NoConv => convs[d].customer # convs[c].customer
    => \A env \in Envs(Nets) :
      /\ message_handler("accept_chat", convs[c].agent, Store, env).st.convs[c]
           = [convs[c] EXCEPT !.active = TRUE]
      /\ message_handler("reject_chat", convs[c].agent, Store, env).st.convs[c]
           = NoConv

\* C33 -- a customer waiting on a Requested handoff can always leave the
\* wait: a restart input of that customer sends the main menu and stores
\* step main_menu, also after an earlier handoff of the same session was
\* accepted and ended.
WaitingCustomerCanRestart ==
  \A c \in ConvIds :
    /\ Requested(c)
    /\ convs[c].customer \in AllCustomers
    /\ sessions[convs[c].customer].step = "agent_response"
    /\ sessions[convs[c].customer].conversation_id = c
    => \A prompt \in RestartInputs, env \in Envs(Nets) :
         LET k == convs[c].customer
             after == message_handler(prompt, k, Store, env).st
         IN  /\ after.sessions[k].step = "main_menu"
             /\ \E i \in 1..Len(after.out) :
                  after.out[i].to = k /\ after.out[i].text = "welcome"

OnlyAssignedAgentActivates ==
  \A sender \in Keys, env \in Envs(Nets),
     prompt \in HandoffReplies \cup { "accept", "I accept cards", "reject" } :
    LET after == message_handler(prompt, sender, Store, env).st
    IN  \A c \in ConvIds :
          /\ Requested(c) /\ after.convs[c] # convs[c] /\ after.convs[c] # NoConv
             => /\ after.convs[c] = [convs[c] EXCEPT !.active = TRUE]
                /\ IsAccept(prompt)
                /\ NormalizedOf[sender] = convs[c].agent
          /\ Active(c) => after.convs[c] \in { convs[c], NoConv }

\* The agent named in a record has just accepted it: the record is active,
\* the customer was told that the agent joined and the agent that the chat
\* is connected.
AssignedAgentActivated ==
  \E c \in ConvIds :
    /\ Active(c)
    /\ Len(out) = 2
    /\ out[1].to = convs[c].customer /\ out[1].text = "agent_joined"
    /\ out[2].to = convs[c].agent /\ out[2].text = "agent_connected"

\* C36 -- while a record is live and the session of its agent references
\* it, a message of the agent other than the exit keyword reaches the
\* customer and nothing is sent to the agent, whether the channel delivers
\* the agent's number as the pool holds it or in a form that normalizes to
\* it.
AgentFormIsRelayed ==
  \A c \in ConvIds :
    /\ Active(c)
    /\ sessions[convs[c].agent].conversation_id = c
    => \A sender \in AgentForms(convs[c].agent), prompt \in ChatReplies,
          env \in Envs(Nets) :
         LET after == message_handler(prompt, sender, Store, env).st
         IN  /\ \E i \in 1..Len(after.out) :
                  /\ after.out[i].to = convs[c].customer
                  /\ after.out[i].text = "agent_says"
                  /\ after.out[i].arg = prompt
             /\ \A i \in 1..Len(after.out) :
                  after.out[i].to \notin AgentForms(convs[c].agent)

\* C37 -- when the accept of the agent and a message of the waiting customer
\* are processed at the same time, then once both calls have finished the
\* record is active and the customer's session is at the handoff step with
\* active_chat set and the record's conversation_id, in whatever order the
\* reads and writes of the two calls were made.
ConcurrentAcceptJoinsCustomer ==
  race.pc = "done" /\ race.agent_pc = "done" =>
    LET c == race.state.conversation_id
    IN  /\ convs[c] # NoConv /\ convs[c].active
        /\ sessions[race.customer].step = "agent_response"
        /\ sessions[race.customer].active_chat
        /\ sessions[race.customer].conversation_id = c

\* C38 -- when the step stored in a session is no key of action_mapping,
\* the next message of that identifier, whatever its text, is handled by
\* the handler of the initial step: the welcome prompt is sent and the
\* session is stored at main_menu.
UnknownStepFallsBackToWelcome ==
  \A k \in Written : sessions[k].step \notin ActionSteps =>
    \A prompt \in Spelled \ { "" }, env \in Envs(Nets) :
      LET done == message_handler(prompt, k, Store, env)
      IN  /\ done.http = 200
          /\ Len(done.st.out) = 1
          /\ done.st.out[1].to = k
          /\ done.st.out[1].kind = "list"
          /\ done.st.out[1].text = "welcome"
          /\ done.st.sessions[k].step = "main_menu"

\* A session is stored at request_more_info, a step without a handler, and
\* a reply to the question asked there brings the welcome prompt.
SessionAtUnknownStep ==
  \E k \in AllCustomers :
    /\ sessions[k].step = "request_more_info"
    /\ \A env \in Envs(Nets) :
         LET done == message_handler("Yes", k, Store, env)
         IN  /\ done.st.out[1].text = "welcome"
             /\ done.st.sessions[k].step = "main_menu"

\* C39 -- every stored session has a sender, and it is the key the session
\* is stored under, whether the session was written by a message of that
\* sender or on its behalf by a message of the other party.
SenderIsSessionKey == \A k \in Written : sessions[k].sender = k

\* A live chat was just ended with "exit": the sessions of both parties
\* were written while one message was processed, the customer's on its
\* behalf or the agent's, and each holds its own key as sender.
ExitWroteBothSessions ==
  \E k \in AllCustomers, a \in AgentSet :
    /\ sessions[k].step = "restart_confirmation"
    /\ sessions[k].sender = k
    /\ sessions[a].sender = a
    /\ \E i \in 1..Len(out) :
         out[i].to = k /\ out[i].text \in { "agent_ended", "you_ended_customer" }

====
